---------------------------- MODULE Spec2Model ----------------------------
(***************************************************************************)
(* A model of tpm2/pcr_profile.go: the PCRProtectionProfile builder, the   *)
(* depth first instruction iterator, ComputePCRValues with its stack of    *)
(* compute contexts, and ComputePCRDigests.                                *)
(*                                                                         *)
(* tpm2.PCRValues is a Go map, i.e. a reference: every map lives in a heap *)
(* (the variable pcrValues) and a pcrValuesList is a sequence of heap      *)
(* addresses, so that sharing a map between two lists is expressible.  The *)
(* compute contexts are referenced by pointer too and live in ctxs.        *)
(***************************************************************************)
EXTENDS Integers, Sequences, FiniteSets, TLC

\* ------------------------------------------------------------------ bounds
MaxProfiles == 3      \* profiles created with NewPCRProtectionProfile
MaxInstrs == 3        \* instructions appended by builder calls, in total
MaxBranches == 2      \* sub-profiles passed to one AddProfileOR call
NumDigests == 1       \* distinct digest contents a caller supplies per length
NumTPMDigests == 2    \* distinct digest contents the TPM may hold in a PCR
MaxCalls == 2         \* ComputePCRValues / ComputePCRDigests calls in a run

ProfileIds == 1..MaxProfiles
Evals == {1, 2}       \* the (at most two) evaluations that may be in progress

Algs == {"SHA256"}    \* tpm2.HashAlgorithmId values used as PCR banks
PCRs == {7, 12}       \* PCR indexes
Nil == 0              \* the nil pointer / the null address

\* ----------------------------------------------------------------- digests
\* alg.Size(): the length in bytes of a digest of the algorithm.
Size(alg) == CASE alg = "SHA1" -> 20 [] alg = "SHA256" -> 32

\* A tpm2.Digest is a byte string.  It is modelled by its length and a term
\* that stands for its content: <<id>> for a byte string supplied from outside
\* (id 0: all bytes zero), and the hash term below for the result of a hash.
RawDigest(n, id) == [len |-> n, val |-> <<id>>]

\* make(tpm2.Digest, alg.Size()): the all-zero digest.
ZeroDigest(alg) == RawDigest(Size(alg), 0)

\* The bytes h.Write(d) feeds to a hash, as a self-delimiting sequence.
Bytes(d) == <<d.len, Len(d.val)>> \o d.val

\* alg.NewHash() ... h.Sum(nil) over the bytes written: a digest of alg.Size()
\* bytes whose content is determined by the algorithm and the bytes written,
\* and by nothing else (no two inputs collide).
HashSum(alg, written) == [len |-> Size(alg), val |-> <<-1, Size(alg)>> \o written]

\* The digests a caller may pass to AddPCRValue and ExtendPCR: of the right
\* length for some algorithm ("SHA1" gives a wrong length for the SHA256 bank).
InputDigests == {RawDigest(Size(a), id) : a \in {"SHA1", "SHA256"}, id \in 1..NumDigests}

\* -------------------------------------------------------------- PCRValues
\* tpm2.PCRValues: map[HashAlgorithmId]map[int]Digest, here a function from
\* the banks present to functions from the PCRs present to digests.
EmptyPCRValues == <<>>

HasBank(v, alg) == alg \in DOMAIN v
HasPCR(v, alg, pcr) == HasBank(v, alg) /\ pcr \in DOMAIN v[alg]

\* m[k] = x on a Go map: the key is added when absent.
MapPut(m, k, x) == [j \in DOMAIN m \cup {k} |-> IF j = k THEN x ELSE m[j]]

\* tpm2.PCRValues.SetValue: creates the bank when absent, then sets the PCR.
PCRValuesSetValue(v, alg, pcr, value) ==
    LET bank == IF HasBank(v, alg) THEN v[alg] ELSE <<>>
    IN  MapPut(v, alg, MapPut(bank, pcr, value))

\* ExtendOne with the two writes to the hash in the other order:
\* hash(value || old) instead of hash(old || value).
ExtendOne_ValueFirst(v, alg, pcr, value) ==
    LET v1 == IF HasBank(v, alg) THEN v ELSE MapPut(v, alg, <<>>)
        v2 == IF pcr \in DOMAIN v1[alg] THEN v1
              ELSE MapPut(v1, alg, MapPut(v1[alg], pcr, ZeroDigest(alg)))
        h  == HashSum(alg, Bytes(value) \o Bytes(v2[alg][pcr]))
    IN  MapPut(v2, alg, MapPut(v2[alg], pcr, h))

\* ExtendOne without the initial value of all zeroes: for a PCR that has no
\* value only the value supplied is written to the hash.
ExtendOne_NoZeroes(v, alg, pcr, value) ==
    LET old == IF HasPCR(v, alg, pcr) THEN Bytes(v[alg][pcr]) ELSE <<>>
    IN  PCRValuesSetValue(v, alg, pcr, HashSum(alg, old \o Bytes(value)))

\* The body of the loop of pcrValuesList.extendValue, on one map.
ExtendOne(v, alg, pcr, value) ==
    LET v1 == IF HasBank(v, alg) THEN v ELSE MapPut(v, alg, <<>>)
        v2 == IF pcr \in DOMAIN v1[alg] THEN v1
              ELSE MapPut(v1, alg, MapPut(v1[alg], pcr, ZeroDigest(alg)))
        h  == HashSum(alg, Bytes(v2[alg][pcr]) \o Bytes(value))
    IN  MapPut(v2, alg, MapPut(v2[alg], pcr, h))

\* The keys (bank, PCR) of a map.
Keys(v) == {<<alg, pcr>> \in (DOMAIN v) \X PCRs : pcr \in DOMAIN v[alg]}


\* ------------------------------------------------------------------- state
VARIABLES
    profiles,    \* profiles[p]: the instrs of PCRProtectionProfile p
    panicked,    \* "" or the message of the panic that ended the program
    ncalls,      \* ComputePCRValues and String calls made so far
    evals,       \* the evaluations the run's callers use (fixed from Init on)
    pc,          \* pc[e]: where call e is: idle, loop, done, finished (of
                 \* ComputePCRValues and ComputePCRDigests), string, printed
                 \* (of String)
    recv,        \* recv[e]: the profile ComputePCRValues was called on
    tpm,         \* tpm[e]: "nil" or "tpm", the *tpm2.TPMContext argument
    iter,        \* iter[e]: pcrProtectionProfileIterator.instrs
    contexts,    \* contexts[e]: the context stack, addresses into ctxs[e]
    ctxs,        \* ctxs[e]: the compute contexts allocated, by address
    pcrValues,   \* pcrValues[e]: the tpm2.PCRValues maps allocated, by address
    reads,       \* reads[e]: the results of the tpm.PCRRead calls, in order
    ret,         \* ret[e]: what ComputePCRValues returned
    dret,        \* dret[e]: what ComputePCRDigests returned
    strContexts, \* strContexts[e]: the contexts of String, (index, total) each
    branchStart, \* branchStart[e]: the branchStart of String
    buf          \* buf[e]: what String has written to its buffer b, in order

vars == <<profiles, panicked, ncalls, evals, pc, recv, tpm, iter, contexts, ctxs,
          pcrValues, reads, ret, dret, strContexts, branchStart, buf>>

strVars == <<strContexts, branchStart, buf>>

evalVars == <<pc, recv, tpm, iter, contexts, ctxs, pcrValues, reads, ret, dret,
              strVars>>

\* ------------------------------------------------------------ instructions
AddPCRValueInstr(alg, pcr, value) ==
    [op |-> "AddPCRValue", alg |-> alg, pcr |-> pcr, value |-> value]
AddPCRValueFromTPMInstr(alg, pcr) ==
    [op |-> "AddPCRValueFromTPM", alg |-> alg, pcr |-> pcr]
ExtendPCRInstr(alg, pcr, value) ==
    [op |-> "ExtendPCR", alg |-> alg, pcr |-> pcr, value |-> value]
AddProfileORInstr(profs) == [op |-> "AddProfileOR", profiles |-> profs]
EndProfileInstr == [op |-> "EndProfile"]

\* ----------------------------------------------------------- pcrValuesList
\* A pcrValuesList is a sequence of addresses into a heap of PCRValues maps.

\* pcrValuesList.setValue: SetValue on every map of the list, in order.
RECURSIVE setValue(_, _, _, _, _)
setValue(heap, l, alg, pcr, value) ==
    IF l = <<>> THEN heap
    ELSE setValue([heap EXCEPT ![Head(l)] = PCRValuesSetValue(@, alg, pcr, value)],
                  Tail(l), alg, pcr, value)

\* pcrValuesList.extendValue: extends the PCR in every map of the list.
RECURSIVE extendValue(_, _, _, _, _)
extendValue(heap, l, alg, pcr, value) ==
    IF l = <<>> THEN heap
    ELSE extendValue([heap EXCEPT ![Head(l)] = ExtendOne(@, alg, pcr, value)],
                     Tail(l), alg, pcr, value)

\* copy returning the list itself: the same maps, no new ones.
copy_Shared(heap, l) == [heap |-> heap, out |-> l]

\* copy with the new list in the opposite order: the copy of the last map
\* first.
copy_Reversed(heap, l) ==
    [heap |-> heap \o [i \in 1..Len(l) |-> heap[l[i]]],
     out  |-> [i \in 1..Len(l) |-> Len(heap) + (Len(l) - i + 1)]]

\* pcrValuesList.copy: a new map per map of the list, with the same banks,
\* PCRs and digests.  Returns the heap grown by the new maps and the new list.
copy(heap, l) ==
    [heap |-> heap \o [i \in 1..Len(l) |-> heap[l[i]]],
     out  |-> [i \in 1..Len(l) |-> Len(heap) + i]]

\* The maps a list refers to, as values.
Deref(heap, l) == [i \in 1..Len(l) |-> heap[l[i]]]

\* ----------------------------------------------------------------- builder
RECURSIVE SumLen(_, _)
SumLen(f, n) == IF n = 0 THEN 0 ELSE Len(f[n]) + SumLen(f, n - 1)

\* The builder calls are made by the single caller before the profiles are
\* evaluated, and at most MaxInstrs of them in a run.
CanBuild ==
    /\ panicked = ""
    /\ ncalls = 0
    /\ \A e \in Evals : pc[e] = "idle"
    /\ SumLen(profiles, MaxProfiles) < MaxInstrs

\* The lists of sub-profiles a caller may pass to p.AddProfileOR: profiles
\* created after p, so that the tree of profiles is finite and acyclic.  A
\* profile may occur more than once, and in the lists of several profiles.
RECURSIVE SeqsUpTo(_, _)
SeqsUpTo(S, n) ==
    IF n = 0 THEN {<<>>}
    ELSE LET shorter == SeqsUpTo(S, n - 1)
         IN  shorter \cup {Append(q, x) : q \in shorter, x \in S}

SubProfileLists(p) == SeqsUpTo({q \in ProfileIds : q > p}, MaxBranches)

\* p.instrs = append(p.instrs, instr)
AppendInstr(p, instr) == [profiles EXCEPT ![p] = Append(@, instr)]

\* AddPCRValue with the length test after the append: the instruction is in
\* the profile when the call panics.
AddPCRValue_AppendFirst(p, alg, pcr, value) ==
    /\ CanBuild
    /\ profiles' = AppendInstr(p, AddPCRValueInstr(alg, pcr, value))
    /\ IF value.len # Size(alg)
       THEN panicked' = "invalid digest length"
       ELSE UNCHANGED panicked
    /\ UNCHANGED <<ncalls, evals, evalVars>>

AddPCRValue(p, alg, pcr, value) ==
    /\ CanBuild
    /\ IF value.len # Size(alg)
       THEN /\ panicked' = "invalid digest length"
            /\ UNCHANGED profiles
       ELSE /\ profiles' = AppendInstr(p, AddPCRValueInstr(alg, pcr, value))
            /\ UNCHANGED panicked
    /\ UNCHANGED <<ncalls, evals, evalVars>>

AddPCRValueFromTPM(p, alg, pcr) ==
    /\ CanBuild
    /\ profiles' = AppendInstr(p, AddPCRValueFromTPMInstr(alg, pcr))
    /\ UNCHANGED <<panicked, ncalls, evals, evalVars>>

ExtendPCR(p, alg, pcr, value) ==
    /\ CanBuild
    /\ IF value.len # Size(alg)
       THEN /\ panicked' = "invalid digest length"
            /\ UNCHANGED profiles
       ELSE /\ profiles' = AppendInstr(p, ExtendPCRInstr(alg, pcr, value))
            /\ UNCHANGED panicked
    /\ UNCHANGED <<ncalls, evals, evalVars>>

AddProfileOR(p, profs) ==
    /\ CanBuild
    /\ profiles' = AppendInstr(p, AddProfileORInstr(profs))
    /\ UNCHANGED <<panicked, ncalls, evals, evalVars>>

\* The profiles of the tree of p: p and the sub-profiles of its tree's
\* AddProfileOR instructions.
RECURSIVE TreeOf(_)
TreeOf(p) ==
    LET instrs == profiles[p]
        ors    == {k \in 1..Len(instrs) : instrs[k].op = "AddProfileOR"}
    IN  {p} \cup UNION {UNION {TreeOf(instrs[k].profiles[j]) :
                                   j \in 1..Len(instrs[k].profiles)} : k \in ors}

\* ---------------------------------------------------------------- iterator
\* descendInToProfiles with the levels of the profiles put behind the levels
\* the iterator already holds.
descendInToProfiles_Behind(it, profs) ==
    it \o [i \in 1..Len(profs) |-> profiles[profs[i]]]

\* pcrProtectionProfileIterator.descendInToProfiles: the instrs of the
\* profiles, in order, in front of the levels the iterator already holds.
descendInToProfiles(it, profs) ==
    [i \in 1..Len(profs) |-> profiles[profs[i]]] \o it

\* nextLoop without the test for an AddProfileOR that has no profiles: the
\* instruction is returned like any other AddProfileOR.
nextLoop_ReturnsEmptyOR(it) ==
    IF Len(it[1]) = 0
    THEN [instr |-> EndProfileInstr, iter |-> Tail(it)]
    ELSE LET instr == Head(it[1])
             it1   == [it EXCEPT ![1] = Tail(@)]
         IN  IF instr.op = "AddProfileOR"
             THEN [instr |-> instr, iter |-> descendInToProfiles(it1, instr.profiles)]
             ELSE [instr |-> instr, iter |-> it1]

\* nextLoop returning no end marker for the outermost level: when the only
\* level left is empty it is dropped and nothing (nil) is returned.
RECURSIVE nextLoop_NoRootMarker(_)
nextLoop_NoRootMarker(it) ==
    IF Len(it[1]) = 0
    THEN IF Len(it) = 1
         THEN [instr |-> [op |-> "nil"], iter |-> Tail(it)]
         ELSE [instr |-> EndProfileInstr, iter |-> Tail(it)]
    ELSE LET instr == Head(it[1])
             it1   == [it EXCEPT ![1] = Tail(@)]
         IN  IF instr.op = "AddProfileOR"
             THEN IF Len(instr.profiles) = 0
                  THEN nextLoop_NoRootMarker(it1)
                  ELSE [instr |-> instr,
                        iter  |-> descendInToProfiles(it1, instr.profiles)]
             ELSE [instr |-> instr, iter |-> it1]

\* The loop of pcrProtectionProfileIterator.next, for an iterator that holds
\* a level: the instruction returned and the iterator afterwards.
RECURSIVE nextLoop(_)
nextLoop(it) ==
    IF Len(it[1]) = 0
    THEN [instr |-> EndProfileInstr, iter |-> Tail(it)]
    ELSE LET instr == Head(it[1])
             it1   == [it EXCEPT ![1] = Tail(@)]
         IN  IF instr.op = "AddProfileOR"
             THEN IF Len(instr.profiles) = 0
                  THEN nextLoop(it1)
                  ELSE [instr |-> instr,
                        iter  |-> descendInToProfiles(it1, instr.profiles)]
             ELSE [instr |-> instr, iter |-> it1]

\* pcrProtectionProfileIterator.next.  On an iterator with no level it panics:
\* it returns nothing, which the pseudo instruction "panic" stands for (no
\* case of a caller's switch takes it).
next(it) ==
    IF Len(it) = 0
    THEN [instr |-> [op |-> "panic"], iter |-> it]
    ELSE nextLoop(it)

\* PCRProtectionProfile.traverseInstructions
traverseInstructions(p) == descendInToProfiles(<<>>, <<p>>)

\* -------------------------------------------------------- compute contexts
\* A pcrProtectionProfileComputeContext is [parent, values]: the address of
\* the parent context (Nil for the root) and a pcrValuesList.

\* The loop of pcrProtectionProfileComputeContext.handleBranches: one new
\* context per sub-branch, each with its own copy of c's values.
RECURSIVE handleBranchesLoop(_, _, _, _, _)
handleBranchesLoop(cs, heap, c, n, out) ==
    IF Len(out) = n
    THEN [ctxs |-> cs, heap |-> heap, out |-> out]
    ELSE LET cp == copy(heap, cs[c].values)
         IN  handleBranchesLoop(Append(cs, [parent |-> c, values |-> cp.out]),
                                cp.heap, c, n, Append(out, Len(cs) + 1))

\* ctxHandleBranches with c.values = nil before the loop that copies c.values.
ctxHandleBranches_ClearFirst(cs, heap, c, n) ==
    LET r == handleBranchesLoop([cs EXCEPT ![c].values = <<>>], heap, c, n, <<>>)
    IN  [ctxs |-> r.ctxs, heap |-> r.heap, out |-> r.out]

\* ctxHandleBranches without the final c.values = nil.
ctxHandleBranches_KeepValues(cs, heap, c, n) ==
    LET r == handleBranchesLoop(cs, heap, c, n, <<>>)
    IN  [ctxs |-> r.ctxs, heap |-> r.heap, out |-> r.out]

\* pcrProtectionProfileComputeContext.handleBranches: the new contexts, then
\* c.values = nil.
ctxHandleBranches(cs, heap, c, n) ==
    LET r == handleBranchesLoop(cs, heap, c, n, <<>>)
    IN  [ctxs |-> [r.ctxs EXCEPT ![c].values = <<>>], heap |-> r.heap, out |-> r.out]

\* ctxFinishBranch with an assignment in place of the append:
\* c.parent.values = c.values
ctxFinishBranch_Overwrite(cs, c) ==
    [cs EXCEPT ![cs[c].parent].values = cs[c].values]

\* ctxFinishBranch with the branch's values put in front of the parent's:
\* c.parent.values = append(c.values, c.parent.values...)
ctxFinishBranch_Prepend(cs, c) ==
    [cs EXCEPT ![cs[c].parent].values = cs[c].values \o @]

\* pcrProtectionProfileComputeContext.finishBranch:
\* c.parent.values = append(c.parent.values, c.values...)
ctxFinishBranch(cs, c) ==
    [cs EXCEPT ![cs[c].parent].values = @ \o cs[c].values]

\* pcrProtectionProfileComputeContext.isRoot
isRoot(cs, c) == cs[c].parent = Nil

\* pcrProtectionProfileComputeContextStack.top
top(s) == s[1]

\* pcrProtectionProfileComputeContextStack.handleBranches: the new contexts
\* in front of the stack, the first sub-branch's on top.
handleBranches(s, cs, heap, n) ==
    LET r == ctxHandleBranches(cs, heap, top(s), n)
    IN  [stack |-> r.out \o s, ctxs |-> r.ctxs, heap |-> r.heap]

\* finishBranch returning the stack as it is, the finished context on top:
\* return s
finishBranch_NoPop(s, cs) == [stack |-> s, ctxs |-> ctxFinishBranch(cs, top(s))]

\* pcrProtectionProfileComputeContextStack.finishBranch
finishBranch(s, cs) == [stack |-> Tail(s), ctxs |-> ctxFinishBranch(cs, top(s))]

\* -------------------------------------------------------- ComputePCRValues
NoRet == [values |-> <<>>, err |-> ""]
NoDRet == [pcrs |-> <<>>, digests |-> <<>>, err |-> ""]

\* What tpm.PCRRead may answer for a PCR of bank alg: a digest of the bank's
\* length, or an error.
PCRReadResults(alg) ==
    {[ok |-> FALSE]} \cup
    {[ok |-> TRUE, value |-> RawDigest(Size(alg), id)] : id \in 1..NumTPMDigests}

\* Fetched with one iterator for all the calls, the one of the first caller.
Fetched_Shared(e) == next(iter[1])

\* The instruction the next iteration of the loop gets from iter.next().
Fetched(e) == next(iter[e])

InLoop(e) == panicked = "" /\ pc[e] = "loop"

\* The call p.ComputePCRValues(t), up to the loop: the root context with one
\* empty PCRValues, and the iterator over p.  The profile evaluated is the
\* root of what the caller built: every profile given instructions is in its
\* tree.
ComputePCRValues(e, p, t) ==
    /\ panicked = ""
    /\ \A q \in DOMAIN profiles : profiles[q] # <<>> => q \in TreeOf(p)
    /\ e \in evals
    /\ pc[e] = "idle"
    /\ ncalls < MaxCalls
    /\ ncalls' = ncalls + 1
    /\ pc' = [pc EXCEPT ![e] = "loop"]
    /\ recv' = [recv EXCEPT ![e] = p]
    /\ tpm' = [tpm EXCEPT ![e] = t]
    /\ pcrValues' = [pcrValues EXCEPT ![e] = <<EmptyPCRValues>>]
    /\ ctxs' = [ctxs EXCEPT ![e] = <<[parent |-> Nil, values |-> <<1>>]>>]
    /\ contexts' = [contexts EXCEPT ![e] = <<1>>]
    /\ iter' = [iter EXCEPT ![e] = traverseInstructions(p)]
    /\ reads' = [reads EXCEPT ![e] = <<>>]
    /\ UNCHANGED <<profiles, panicked, evals, ret, dret>>
    /\ UNCHANGED strVars

\* StepAddPCRValue with an iterator that takes the instruction out of the
\* profile it came from (here the one the call was made on).
StepAddPCRValue_PopsProfile(e) ==
    /\ InLoop(e)
    /\ LET n == Fetched(e)
           i == n.instr
       IN  /\ i.op = "AddPCRValue"
           /\ iter' = [iter EXCEPT ![e] = n.iter]
           /\ pcrValues' = [pcrValues EXCEPT ![e] =
                  setValue(@, ctxs[e][top(contexts[e])].values, i.alg, i.pcr, i.value)]
    /\ profiles' = [profiles EXCEPT ![recv[e]] = Tail(@)]
    /\ UNCHANGED <<recv, panicked, ncalls, evals, pc, tpm, contexts, ctxs,
                   reads, ret, dret>>
    /\ UNCHANGED strVars

\* case *pcrProtectionProfileAddPCRValueInstr
StepAddPCRValue(e) ==
    /\ InLoop(e)
    /\ LET n == Fetched(e)
           i == n.instr
       IN  /\ i.op = "AddPCRValue"
           /\ iter' = [iter EXCEPT ![e] = n.iter]
           /\ pcrValues' = [pcrValues EXCEPT ![e] =
                  setValue(@, ctxs[e][top(contexts[e])].values, i.alg, i.pcr, i.value)]
    /\ UNCHANGED <<recv, profiles, panicked, ncalls, evals, pc, tpm, contexts, ctxs,
                   reads, ret, dret>>
    /\ UNCHANGED strVars

\* StepAddPCRValueFromTPMNoTPM without the return: with no TPM context the
\* instruction is passed over and the loop goes on.
StepAddPCRValueFromTPMNoTPM_Skip(e) ==
    /\ InLoop(e)
    /\ LET n == Fetched(e)
       IN  /\ n.instr.op = "AddPCRValueFromTPM"
           /\ tpm[e] = "nil"
           /\ iter' = [iter EXCEPT ![e] = n.iter]
    /\ UNCHANGED <<recv, profiles, panicked, ncalls, evals, pc, tpm, contexts, ctxs,
                   pcrValues, reads, ret, dret>>
    /\ UNCHANGED strVars

\* case *pcrProtectionProfileAddPCRValueFromTPMInstr, tpm == nil
StepAddPCRValueFromTPMNoTPM(e) ==
    /\ InLoop(e)
    /\ LET n == Fetched(e)
       IN  /\ n.instr.op = "AddPCRValueFromTPM"
           /\ tpm[e] = "nil"
           /\ iter' = [iter EXCEPT ![e] = n.iter]
           /\ ret' = [ret EXCEPT ![e] = [values |-> <<>>, err |-> "no TPM context"]]
           /\ pc' = [pc EXCEPT ![e] = "done"]
    /\ UNCHANGED <<recv, profiles, panicked, ncalls, evals, tpm, contexts, ctxs,
                   pcrValues, reads, dret>>
    /\ UNCHANGED strVars

\* StepAddPCRValueFromTPMError returning, with the error, the values of the
\* top context as they are.
StepAddPCRValueFromTPMError_Partial(e) ==
    /\ InLoop(e)
    /\ LET n == Fetched(e)
       IN  /\ n.instr.op = "AddPCRValueFromTPM"
           /\ tpm[e] # "nil"
           /\ \E r \in PCRReadResults(n.instr.alg) :
                  /\ ~r.ok
                  /\ reads' = [reads EXCEPT ![e] = Append(@, r)]
           /\ iter' = [iter EXCEPT ![e] = n.iter]
           /\ ret' = [ret EXCEPT ![e] =
                  [values |-> Deref(pcrValues[e], ctxs[e][top(contexts[e])].values),
                   err    |-> "PCRRead"]]
           /\ pc' = [pc EXCEPT ![e] = "done"]
    /\ UNCHANGED <<recv, profiles, panicked, ncalls, evals, tpm, contexts, ctxs,
                   pcrValues, dret>>
    /\ UNCHANGED strVars

\* case *pcrProtectionProfileAddPCRValueFromTPMInstr, tpm.PCRRead fails
StepAddPCRValueFromTPMError(e) ==
    /\ InLoop(e)
    /\ LET n == Fetched(e)
       IN  /\ n.instr.op = "AddPCRValueFromTPM"
           /\ tpm[e] # "nil"
           /\ \E r \in PCRReadResults(n.instr.alg) :
                  /\ ~r.ok
                  /\ reads' = [reads EXCEPT ![e] = Append(@, r)]
           /\ iter' = [iter EXCEPT ![e] = n.iter]
           /\ ret' = [ret EXCEPT ![e] = [values |-> <<>>, err |-> "PCRRead"]]
           /\ pc' = [pc EXCEPT ![e] = "done"]
    /\ UNCHANGED <<recv, profiles, panicked, ncalls, evals, tpm, contexts, ctxs,
                   pcrValues, dret>>
    /\ UNCHANGED strVars

\* StepAddPCRValueFromTPM with a cache: once a value has been read during the
\* evaluation, it is used again and the TPM is not read.
StepAddPCRValueFromTPM_Cached(e) ==
    /\ InLoop(e)
    /\ LET n == Fetched(e)
           i == n.instr
       IN  /\ i.op = "AddPCRValueFromTPM"
           /\ tpm[e] # "nil"
           /\ IF reads[e] # <<>>
              THEN /\ reads' = reads
                   /\ pcrValues' = [pcrValues EXCEPT ![e] =
                          setValue(@, ctxs[e][top(contexts[e])].values,
                                   i.alg, i.pcr, reads[e][Len(reads[e])].value)]
              ELSE \E r \in PCRReadResults(i.alg) :
                       /\ r.ok
                       /\ reads' = [reads EXCEPT ![e] = Append(@, r)]
                       /\ pcrValues' = [pcrValues EXCEPT ![e] =
                              setValue(@, ctxs[e][top(contexts[e])].values,
                                       i.alg, i.pcr, r.value)]
           /\ iter' = [iter EXCEPT ![e] = n.iter]
    /\ UNCHANGED <<recv, profiles, panicked, ncalls, evals, pc, tpm, contexts, ctxs,
                   ret, dret>>
    /\ UNCHANGED strVars

\* case *pcrProtectionProfileAddPCRValueFromTPMInstr, tpm.PCRRead succeeds
StepAddPCRValueFromTPM(e) ==
    /\ InLoop(e)
    /\ LET n == Fetched(e)
           i == n.instr
       IN  /\ i.op = "AddPCRValueFromTPM"
           /\ tpm[e] # "nil"
           /\ \E r \in PCRReadResults(i.alg) :
                  /\ r.ok
                  /\ reads' = [reads EXCEPT ![e] = Append(@, r)]
                  /\ pcrValues' = [pcrValues EXCEPT ![e] =
                         setValue(@, ctxs[e][top(contexts[e])].values,
                                  i.alg, i.pcr, r.value)]
           /\ iter' = [iter EXCEPT ![e] = n.iter]
    /\ UNCHANGED <<recv, profiles, panicked, ncalls, evals, pc, tpm, contexts, ctxs,
                   ret, dret>>
    /\ UNCHANGED strVars

\* case *pcrProtectionProfileExtendPCRInstr
StepExtendPCR(e) ==
    /\ InLoop(e)
    /\ LET n == Fetched(e)
           i == n.instr
       IN  /\ i.op = "ExtendPCR"
           /\ iter' = [iter EXCEPT ![e] = n.iter]
           /\ pcrValues' = [pcrValues EXCEPT ![e] =
                  extendValue(@, ctxs[e][top(contexts[e])].values, i.alg, i.pcr, i.value)]
    /\ UNCHANGED <<recv, profiles, panicked, ncalls, evals, pc, tpm, contexts, ctxs,
                   reads, ret, dret>>
    /\ UNCHANGED strVars

\* case *pcrProtectionProfileAddProfileORInstr
StepAddProfileOR(e) ==
    /\ InLoop(e)
    /\ LET n == Fetched(e)
           r == handleBranches(contexts[e], ctxs[e], pcrValues[e],
                               Len(n.instr.profiles))
       IN  /\ n.instr.op = "AddProfileOR"
           /\ iter' = [iter EXCEPT ![e] = n.iter]
           /\ contexts' = [contexts EXCEPT ![e] = r.stack]
           /\ ctxs' = [ctxs EXCEPT ![e] = r.ctxs]
           /\ pcrValues' = [pcrValues EXCEPT ![e] = r.heap]
    /\ UNCHANGED <<recv, profiles, panicked, ncalls, evals, pc, tpm, reads, ret, dret>>
    /\ UNCHANGED strVars

\* StepEndProfileRoot without the return: the end marker of the outermost
\* level is passed over and the loop goes on.
StepEndProfileRoot_NoReturn(e) ==
    /\ InLoop(e)
    /\ LET n == Fetched(e)
       IN  /\ n.instr.op = "EndProfile"
           /\ isRoot(ctxs[e], top(contexts[e]))
           /\ iter' = [iter EXCEPT ![e] = n.iter]
    /\ UNCHANGED <<recv, profiles, panicked, ncalls, evals, pc, tpm, contexts, ctxs,
                   pcrValues, reads, ret, dret>>
    /\ UNCHANGED strVars

\* case *pcrProtectionProfileEndProfileInstr, on the root context: the end
\* of the profile, the root's values are returned.
StepEndProfileRoot(e) ==
    /\ InLoop(e)
    /\ LET n == Fetched(e)
       IN  /\ n.instr.op = "EndProfile"
           /\ isRoot(ctxs[e], top(contexts[e]))
           /\ iter' = [iter EXCEPT ![e] = n.iter]
           /\ ret' = [ret EXCEPT ![e] =
                  [values |-> Deref(pcrValues[e], ctxs[e][top(contexts[e])].values),
                   err    |-> "nil"]]
           /\ pc' = [pc EXCEPT ![e] = "done"]
    /\ UNCHANGED <<recv, profiles, panicked, ncalls, evals, tpm, contexts, ctxs,
                   pcrValues, reads, dret>>
    /\ UNCHANGED strVars

\* case *pcrProtectionProfileEndProfileInstr, on another context
StepEndProfile(e) ==
    /\ InLoop(e)
    /\ LET n == Fetched(e)
           r == finishBranch(contexts[e], ctxs[e])
       IN  /\ n.instr.op = "EndProfile"
           /\ ~isRoot(ctxs[e], top(contexts[e]))
           /\ iter' = [iter EXCEPT ![e] = n.iter]
           /\ contexts' = [contexts EXCEPT ![e] = r.stack]
           /\ ctxs' = [ctxs EXCEPT ![e] = r.ctxs]
    /\ UNCHANGED <<recv, profiles, panicked, ncalls, evals, pc, tpm, pcrValues,
                   reads, ret, dret>>
    /\ UNCHANGED strVars

\* ------------------------------------------------------- ComputePCRDigests
\* The banks in the order of a PCRSelectionList, and a set of PCR indexes in
\* ascending order.
BankOrder == <<"SHA1", "SHA256">>

RECURSIVE Ascending(_)
Ascending(S) ==
    IF S = {} THEN <<>>
    ELSE LET m == CHOOSE x \in S : \A y \in S : x <= y
         IN  <<m>> \o Ascending(S \ {m})

\* SelectionList giving the banks of the map only, with no PCR selected.
SelectionList_BanksOnly(v) == [alg \in DOMAIN v |-> {}]

\* tpm2.PCRValues.SelectionList: for every bank of the map, the PCRs it holds.
SelectionList(v) == [alg \in DOMAIN v |-> DOMAIN v[alg]]

\* The bytes tpm2.ComputePCRDigestSimple hashes: the digests of the map's
\* PCRs, bank after bank and in ascending order of PCR index.
RECURSIVE BankBytes(_, _)
BankBytes(bank, pcrs) ==
    IF pcrs = <<>> THEN <<>>
    ELSE Bytes(bank[Head(pcrs)]) \o BankBytes(bank, Tail(pcrs))

RECURSIVE PCRBytes(_, _)
PCRBytes(v, banks) ==
    IF banks = <<>> THEN <<>>
    ELSE (IF Head(banks) \in DOMAIN v
          THEN BankBytes(v[Head(banks)], Ascending(DOMAIN v[Head(banks)]))
          ELSE <<>>) \o PCRBytes(v, Tail(banks))

\* tpm2.ComputePCRDigestSimple(alg, v): the selection of v and the composite
\* digest of its values.
ComputePCRDigestSimple(alg, v) ==
    [pcrs |-> SelectionList(v), digest |-> HashSum(alg, PCRBytes(v, BankOrder))]

\* The second loop without the search for a digest already kept.
uniquePcrDigests_KeepAll(pcrDigests, kept) == kept \o pcrDigests

\* The second loop of ComputePCRDigests: every digest not byte-equal to one
\* already kept is appended to the digests kept.
RECURSIVE uniquePcrDigests(_, _)
uniquePcrDigests(pcrDigests, kept) ==
    IF pcrDigests = <<>> THEN kept
    ELSE LET d == Head(pcrDigests)
         IN  uniquePcrDigests(Tail(pcrDigests),
                 IF \E j \in 1..Len(kept) : kept[j] = d THEN kept ELSE Append(kept, d))

\* DigestsOf without the p.Equal(pcrs) test in the first loop.
DigestsOf_NoEqualTest(alg, values, err) ==
    IF err # "nil"
    THEN [pcrs |-> <<>>, digests |-> <<>>, err |-> err]
    ELSE [pcrs |-> SelectionList(values[1]),
          digests |-> uniquePcrDigests(
                          [i \in 1..Len(values) |->
                               ComputePCRDigestSimple(alg, values[i]).digest], <<>>),
          err |-> "nil"]

\* ComputePCRDigests after its call of ComputePCRValues returned (values, err).
DigestsOf(alg, values, err) ==
    IF err # "nil"
    THEN [pcrs |-> <<>>, digests |-> <<>>, err |-> err]
    ELSE LET simple == [i \in 1..Len(values) |-> ComputePCRDigestSimple(alg, values[i])]
             sel == SelectionList(values[1])
         IN  IF \E i \in 1..Len(values) : simple[i].pcrs # sel
             THEN [pcrs |-> <<>>, digests |-> <<>>,
                   err |-> "not all branches contain values for the same sets of PCRs"]
             ELSE [pcrs |-> sel,
                   digests |-> uniquePcrDigests(
                                   [i \in 1..Len(values) |-> simple[i].digest], <<>>),
                   err |-> "nil"]

\* p.ComputePCRDigests(t, alg), from the return of its ComputePCRValues call
\* on: the call itself is the evaluation that has just ended.
ComputePCRDigests(e, alg) ==
    /\ panicked = ""
    /\ pc[e] = "done"
    /\ IF ret[e].err = "nil" /\ Len(ret[e].values) = 0
       THEN /\ panicked' = "index out of range"
            /\ UNCHANGED <<pc, dret>>
       ELSE /\ dret' = [dret EXCEPT ![e] = DigestsOf(alg, ret[e].values, ret[e].err)]
            /\ pc' = [pc EXCEPT ![e] = "finished"]
            /\ UNCHANGED panicked
    /\ UNCHANGED <<recv, profiles, ncalls, evals, tpm, iter, contexts, ctxs, pcrValues,
                   reads, ret>>
    /\ UNCHANGED strVars

\* ------------------------------------------------------------------ String
\* What a fmt.Fprintf call of String writes to the buffer: the format used,
\* the width of the padding ("%*s" with the empty string) and the arguments.
Newline == [f |-> "\n"]
BranchOpen(width, index) == [f |-> "%*sBranch %d {\n", width |-> width, index |-> index]
InstrText(width, i) == [f |-> "%*s " \o i.op, width |-> width, instr |-> i]
OROpen(width) == [f |-> "%*s AddProfileOR(", width |-> width]
BranchClose(width) == [f |-> "%*s}", width |-> width]
ORClose(width) == [f |-> "\n%*s )", width |-> width]

\* The call p.String(), up to the loop: one context for the root, and the
\* iterator over p.
String(e, p) ==
    /\ panicked = ""
    /\ \A q \in DOMAIN profiles : profiles[q] # <<>> => q \in TreeOf(p)
    /\ e \in evals
    /\ pc[e] = "idle"
    /\ ncalls < MaxCalls
    /\ ncalls' = ncalls + 1
    /\ pc' = [pc EXCEPT ![e] = "string"]
    /\ recv' = [recv EXCEPT ![e] = p]
    /\ strContexts' = [strContexts EXCEPT ![e] = <<[index |-> 0, total |-> 1]>>]
    /\ branchStart' = [branchStart EXCEPT ![e] = FALSE]
    /\ iter' = [iter EXCEPT ![e] = traverseInstructions(p)]
    /\ buf' = [buf EXCEPT ![e] = <<>>]
    /\ UNCHANGED <<profiles, panicked, evals, tpm, contexts, ctxs, pcrValues, reads,
                   ret, dret>>

\* InStringLoop with a loop that does not test the contexts: for { ... }
InStringLoop_NoTest(e) == panicked = "" /\ pc[e] = "string"

\* The loop of String is entered: len(contexts) > 0.
InStringLoop(e) == panicked = "" /\ pc[e] = "string" /\ Len(strContexts[e]) > 0

\* depth := len(contexts) - 1
Depth(e) == Len(strContexts[e]) - 1

\* The start of an iteration of the loop: the newline, and the opening of a
\* branch when branchStart is set (which is then cleared).
StringPrologue(e) ==
    IF branchStart[e]
    THEN buf[e] \o <<Newline, BranchOpen(Depth(e) * 3, strContexts[e][1].index)>>
    ELSE Append(buf[e], Newline)

\* case *pcrProtectionProfileAddPCRValueInstr, ...AddPCRValueFromTPMInstr,
\* ...ExtendPCRInstr: the instruction is printed.
StringInstr(e) ==
    /\ InStringLoop(e)
    /\ LET n == Fetched(e)
       IN  /\ n.instr.op \in {"AddPCRValue", "AddPCRValueFromTPM", "ExtendPCR"}
           /\ iter' = [iter EXCEPT ![e] = n.iter]
           /\ buf' = [buf EXCEPT ![e] =
                  Append(StringPrologue(e), InstrText(Depth(e) * 3, n.instr))]
    /\ branchStart' = [branchStart EXCEPT ![e] = FALSE]
    /\ UNCHANGED <<profiles, panicked, ncalls, evals, pc, recv, tpm, contexts, ctxs,
                   pcrValues, reads, ret, dret, strContexts>>

\* case *pcrProtectionProfileAddProfileORInstr: a context for the branches
\* in front of the others.
StringAddProfileOR(e) ==
    /\ InStringLoop(e)
    /\ LET n == Fetched(e)
       IN  /\ n.instr.op = "AddProfileOR"
           /\ iter' = [iter EXCEPT ![e] = n.iter]
           /\ strContexts' = [strContexts EXCEPT ![e] =
                  <<[index |-> 0, total |-> Len(n.instr.profiles)]>> \o @]
           /\ buf' = [buf EXCEPT ![e] = Append(StringPrologue(e), OROpen(Depth(e) * 3))]
    /\ branchStart' = [branchStart EXCEPT ![e] = TRUE]
    /\ UNCHANGED <<profiles, panicked, ncalls, evals, pc, recv, tpm, contexts, ctxs,
                   pcrValues, reads, ret, dret>>

\* case *pcrProtectionProfileEndProfileInstr
StringEndProfile(e) ==
    /\ InStringLoop(e)
    /\ LET n      == Fetched(e)
           cs     == [strContexts[e] EXCEPT ![1].index = @ + 1]
           nested == Len(cs) > 1
           b1     == IF nested
                     THEN Append(StringPrologue(e), BranchClose(Depth(e) * 3))
                     ELSE StringPrologue(e)
       IN  /\ n.instr.op = "EndProfile"
           /\ iter' = [iter EXCEPT ![e] = n.iter]
           /\ IF cs[1].index < cs[1].total
              THEN /\ branchStart' = [branchStart EXCEPT ![e] = TRUE]
                   /\ strContexts' = [strContexts EXCEPT ![e] = cs]
                   /\ buf' = [buf EXCEPT ![e] = b1]
              ELSE /\ branchStart' = [branchStart EXCEPT ![e] = FALSE]
                   /\ strContexts' = [strContexts EXCEPT ![e] = Tail(cs)]
                   /\ buf' = [buf EXCEPT ![e] =
                          IF nested THEN Append(b1, ORClose((Depth(e) - 1) * 3))
                          ELSE b1]
    /\ UNCHANGED <<profiles, panicked, ncalls, evals, pc, recv, tpm, contexts, ctxs,
                   pcrValues, reads, ret, dret>>

\* The loop ends with no context left: return b.String(), which is buf[e]
StringReturn(e) ==
    /\ panicked = ""
    /\ pc[e] = "string"
    /\ Len(strContexts[e]) = 0
    /\ pc' = [pc EXCEPT ![e] = "printed"]
    /\ UNCHANGED <<profiles, panicked, ncalls, evals, recv, tpm, iter, contexts, ctxs,
                   pcrValues, reads, ret, dret, strVars>>

\* The caller is done with the results of evaluation e; the iterator, the
\* contexts and the maps of the call are garbage.
Forget(e) ==
    /\ panicked = ""
    /\ pc[e] \in {"done", "finished", "printed"}
    /\ pc' = [pc EXCEPT ![e] = "idle"]
    /\ recv' = [recv EXCEPT ![e] = Nil]
    /\ tpm' = [tpm EXCEPT ![e] = "nil"]
    /\ iter' = [iter EXCEPT ![e] = <<>>]
    /\ contexts' = [contexts EXCEPT ![e] = <<>>]
    /\ ctxs' = [ctxs EXCEPT ![e] = <<>>]
    /\ pcrValues' = [pcrValues EXCEPT ![e] = <<>>]
    /\ reads' = [reads EXCEPT ![e] = <<>>]
    /\ ret' = [ret EXCEPT ![e] = NoRet]
    /\ dret' = [dret EXCEPT ![e] = NoDRet]
    /\ strContexts' = [strContexts EXCEPT ![e] = <<>>]
    /\ branchStart' = [branchStart EXCEPT ![e] = FALSE]
    /\ buf' = [buf EXCEPT ![e] = <<>>]
    /\ UNCHANGED <<profiles, panicked, ncalls, evals>>

\* ------------------------------------------------------------ specification
\* Every profile as NewPCRProtectionProfile returns it, and no call made yet.
Init ==
    /\ profiles = [p \in ProfileIds |-> <<>>]
    /\ panicked = ""
    /\ ncalls = 0
    /\ evals = {1}
    /\ pc = [e \in Evals |-> "idle"]
    /\ recv = [e \in Evals |-> Nil]
    /\ tpm = [e \in Evals |-> "nil"]
    /\ iter = [e \in Evals |-> <<>>]
    /\ contexts = [e \in Evals |-> <<>>]
    /\ ctxs = [e \in Evals |-> <<>>]
    /\ pcrValues = [e \in Evals |-> <<>>]
    /\ reads = [e \in Evals |-> <<>>]
    /\ ret = [e \in Evals |-> NoRet]
    /\ dret = [e \in Evals |-> NoDRet]
    /\ strContexts = [e \in Evals |-> <<>>]
    /\ branchStart = [e \in Evals |-> FALSE]
    /\ buf = [e \in Evals |-> <<>>]

Build ==
    \E p \in ProfileIds :
        \/ \E alg \in Algs, pcr \in PCRs, value \in InputDigests :
               AddPCRValue(p, alg, pcr, value)
        \/ \E alg \in Algs, pcr \in PCRs : AddPCRValueFromTPM(p, alg, pcr)
        \/ \E alg \in Algs, pcr \in PCRs, value \in InputDigests :
               ExtendPCR(p, alg, pcr, value)
        \/ \E profs \in SubProfileLists(p) : AddProfileOR(p, profs)

Evaluate ==
    \E e \in Evals :
        \/ \E p \in DOMAIN profiles, t \in {"nil", "tpm"} : ComputePCRValues(e, p, t)
        \/ StepAddPCRValue(e)
        \/ StepAddPCRValueFromTPMNoTPM(e)
        \/ StepAddPCRValueFromTPMError(e)
        \/ StepAddPCRValueFromTPM(e)
        \/ StepExtendPCR(e)
        \/ StepAddProfileOR(e)
        \/ StepEndProfileRoot(e)
        \/ StepEndProfile(e)
        \/ \E alg \in {"SHA1", "SHA256"} : ComputePCRDigests(e, alg)
        \/ \E p \in DOMAIN profiles : String(e, p)
        \/ StringInstr(e)
        \/ StringAddProfileOR(e)
        \/ StringEndProfile(e)
        \/ StringReturn(e)
        \/ Forget(e)

Next == Build \/ Evaluate

Spec == Init /\ [][Next]_vars

\* ------------------------------------------- evaluation of nested profiles
\* A second specification: the profiles are built already, as a root whose
\* AddProfileOR has NestedMids sub-profiles, each of one instruction followed
\* by an AddProfileOR of the same NestedLeaves sub-profiles of one instruction
\* each, and the tree is evaluated once.
NestedMids == 2
NestedLeaves == 3

\* The instructions the builder calls can put in a slot of the tree: every
\* AddPCRValue and ExtendPCR with a digest of the right length, and in the
\* slots of the root's sub-profiles every AddPCRValueFromTPM as well.
LeafInstrs ==
    {AddPCRValueInstr(alg, pcr, RawDigest(Size(alg), id)) :
         alg \in Algs, pcr \in PCRs, id \in 1..NumDigests}
    \cup {ExtendPCRInstr(alg, pcr, RawDigest(Size(alg), id)) :
              alg \in Algs, pcr \in PCRs, id \in 1..NumDigests}
MidInstrs ==
    LeafInstrs \cup {AddPCRValueFromTPMInstr(alg, pcr) : alg \in Algs, pcr \in PCRs}

MidId(i) == 1 + i
LeafId(j) == 1 + NestedMids + j

NestedProfiles(mid, leaf) ==
    [p \in 1..(1 + NestedMids + NestedLeaves) |->
        IF p = 1 THEN <<AddProfileORInstr([i \in 1..NestedMids |-> MidId(i)])>>
        ELSE IF p <= 1 + NestedMids
        THEN <<mid[p - 1], AddProfileORInstr([j \in 1..NestedLeaves |-> LeafId(j)])>>
        ELSE <<leaf[p - 1 - NestedMids]>>]

InitNested ==
    /\ profiles \in {NestedProfiles(mid, leaf) :
                         mid \in [1..NestedMids -> MidInstrs],
                         leaf \in [1..NestedLeaves -> LeafInstrs]}
    /\ panicked = ""
    /\ ncalls = MaxCalls - 1
    /\ evals = {1}
    /\ pc = [e \in Evals |-> "idle"]
    /\ recv = [e \in Evals |-> Nil]
    /\ tpm = [e \in Evals |-> "nil"]
    /\ iter = [e \in Evals |-> <<>>]
    /\ contexts = [e \in Evals |-> <<>>]
    /\ ctxs = [e \in Evals |-> <<>>]
    /\ pcrValues = [e \in Evals |-> <<>>]
    /\ reads = [e \in Evals |-> <<>>]
    /\ ret = [e \in Evals |-> NoRet]
    /\ dret = [e \in Evals |-> NoDRet]
    /\ strContexts = [e \in Evals |-> <<>>]
    /\ branchStart = [e \in Evals |-> FALSE]
    /\ buf = [e \in Evals |-> <<>>]

SpecNested == InitNested /\ [][Evaluate]_vars

\* ------------------------------------------ two callers of the same profile
\* A third specification: the profiles are built already, as a root of one
\* instruction followed by an AddProfileOR of two sub-profiles of one
\* instruction each, and two callers evaluate or print the tree, one after
\* the other or at the same time, each call with its own iterator, contexts
\* and values.
SharedInstrs ==
    {AddPCRValueInstr("SHA256", 7, RawDigest(Size("SHA256"), 1)),
     ExtendPCRInstr("SHA256", 7, RawDigest(Size("SHA256"), 1)),
     AddPCRValueFromTPMInstr("SHA256", 7)}

SharedProfiles(x, y, z) == <<<<x, AddProfileORInstr(<<2, 3>>)>>, <<y>>, <<z>>>>

InitShared ==
    /\ profiles \in {SharedProfiles(x, y, z) : x, y, z \in SharedInstrs}
    /\ panicked = ""
    /\ ncalls = 0
    /\ evals = Evals
    /\ pc = [e \in Evals |-> "idle"]
    /\ recv = [e \in Evals |-> Nil]
    /\ tpm = [e \in Evals |-> "nil"]
    /\ iter = [e \in Evals |-> <<>>]
    /\ contexts = [e \in Evals |-> <<>>]
    /\ ctxs = [e \in Evals |-> <<>>]
    /\ pcrValues = [e \in Evals |-> <<>>]
    /\ reads = [e \in Evals |-> <<>>]
    /\ ret = [e \in Evals |-> NoRet]
    /\ dret = [e \in Evals |-> NoDRet]
    /\ strContexts = [e \in Evals |-> <<>>]
    /\ branchStart = [e \in Evals |-> FALSE]
    /\ buf = [e \in Evals |-> <<>>]

SpecShared == InitShared /\ [][Evaluate]_vars


\* ------------------------------------------------------ reference semantics
\* What the documentation says a profile means, stated without the iterator,
\* the context stack and the heap: a value set is a function from the keys
\* <<alg, pcr>> recorded to their digests, and a profile maps a list of value
\* sets to a list of value sets.  The values the TPM answered are taken from
\* the log of the reads, one per AddPCRValueFromTPM instruction reached.

\* A PCRValues map as a function of its keys.
Flat(v) == [k \in Keys(v) |-> v[k[1]][k[2]]]
FlatList(l) == [i \in 1..Len(l) |-> Flat(l[i])]

RefPut(f, k, d) == [j \in DOMAIN f \cup {k} |-> IF j = k THEN d ELSE f[j]]

\* One instruction other than AddProfileOR on one value set; rd is the value
\* read from the TPM for it, if it is an AddPCRValueFromTPM.
RefInstr(i, f, rd) ==
    LET k == <<i.alg, i.pcr>>
    IN  CASE i.op = "AddPCRValue" -> RefPut(f, k, i.value)
          [] i.op = "AddPCRValueFromTPM" -> RefPut(f, k, rd)
          [] i.op = "ExtendPCR" ->
                 LET old == IF k \in DOMAIN f THEN f[k] ELSE ZeroDigest(i.alg)
                 IN  RefPut(f, k, HashSum(i.alg, Bytes(old) \o Bytes(i.value)))

IsBranch(i) == i.op = "AddProfileOR"
NoBranch(instrs) == \A k \in 1..Len(instrs) : ~IsBranch(instrs[k])

\* The number of AddPCRValueFromTPM instructions of a sequence without
\* AddProfileOR, i.e. the reads its application consumes.
RECURSIVE RefReadsOfSeq(_)
RefReadsOfSeq(instrs) ==
    IF instrs = <<>> THEN 0
    ELSE (IF Head(instrs).op = "AddPCRValueFromTPM" THEN 1 ELSE 0)
         + RefReadsOfSeq(Tail(instrs))

\* A sequence of instructions without AddProfileOR applied in order to one
\* value set; rds are the values read, in order.
RECURSIVE RefSeq(_, _, _)
RefSeq(instrs, f, rds) ==
    IF instrs = <<>> THEN f
    ELSE LET i == Head(instrs)
             isRead == i.op = "AddPCRValueFromTPM"
         IN  RefSeq(Tail(instrs),
                    RefInstr(i, f, IF isRead THEN Head(rds) ELSE ZeroDigest(i.alg)),
                    IF isRead THEN Tail(rds) ELSE rds)

\* The values the TPM answered to evaluation e, in order.
ReadValues(e) == [k \in 1..Len(reads[e]) |-> reads[e][k].value]

\* Evaluation e's ComputePCRValues call has returned; with success.
Returned(e) == pc[e] \in {"done", "finished"}
ReturnedOK(e) == Returned(e) /\ ret[e].err = "nil"

\* ------------------------------------------------------------------ claims

\* C1: for a profile without AddProfileOR, a ComputePCRValues call that
\* succeeds returns exactly one value set, the one obtained by applying the
\* instructions one by one, in declaration order, to the empty value set:
\* AddPCRValue replaces the value recorded for (alg, pcr) and ExtendPCR
\* replaces the recorded value old by hash(old || v).
C1_StraightLine ==
    \A e \in Evals :
        (ReturnedOK(e) /\ NoBranch(profiles[recv[e]])) =>
            /\ Len(ret[e].values) = 1
            /\ Flat(ret[e].values[1]) = RefSeq(profiles[recv[e]], <<>>, ReadValues(e))

\* A straight-line profile of three instructions was evaluated in which an
\* ExtendPCR extends a value that an earlier instruction recorded and a later
\* instruction replaces a recorded value.
C1_Witness ==
    \E e \in Evals :
        /\ ReturnedOK(e)
        /\ LET instrs == profiles[recv[e]]
           IN  /\ NoBranch(instrs)
               /\ Len(instrs) = 3
               /\ instrs[2].op = "ExtendPCR"
               /\ instrs[1].op # "ExtendPCR"
               /\ instrs[3].op = "AddPCRValue"
               /\ instrs[1].pcr = instrs[2].pcr
               /\ instrs[2].pcr = instrs[3].pcr

\* The instructions of a sequence before its first AddProfileOR, that
\* instruction's position, and the instructions after it.
BranchAt(instrs) == CHOOSE k \in 1..Len(instrs) : IsBranch(instrs[k])
Drop(q, n) == SubSeq(q, n + 1, Len(q))

\* A profile with exactly one AddProfileOR, of at least one sub-profile, none
\* of which contains an AddProfileOR.
OneSimpleBranch(p) ==
    LET instrs == profiles[p]
    IN  /\ Cardinality({k \in 1..Len(instrs) : IsBranch(instrs[k])}) = 1
        /\ LET subs == instrs[BranchAt(instrs)].profiles
           IN  /\ Len(subs) >= 1
               /\ \A i \in 1..Len(subs) : NoBranch(profiles[subs[i]])

\* The reads consumed by the sub-profiles subs[1..n].
RECURSIVE RefReadsOfSubs(_, _)
RefReadsOfSubs(subs, n) ==
    IF n = 0 THEN 0
    ELSE RefReadsOfSeq(profiles[subs[n]]) + RefReadsOfSubs(subs, n - 1)

\* For a profile p as in OneSimpleBranch: the value set of the path through
\* sub-profile i, given the values rds read during the whole evaluation: the
\* instructions before the AddProfileOR, then those of the sub-profile, then
\* those after the AddProfileOR.
RefPathThrough(p, i, rds) ==
    LET instrs == profiles[p]
        b      == BranchAt(instrs)
        pre    == SubSeq(instrs, 1, b - 1)
        post   == Drop(instrs, b)
        subs   == instrs[b].profiles
        sub    == profiles[subs[i]]
        nPre   == RefReadsOfSeq(pre)
        before == RefSeq(pre, <<>>, rds)
        inSub  == RefSeq(sub, before, Drop(rds, nPre + RefReadsOfSubs(subs, i - 1)))
    IN  RefSeq(post, inSub, Drop(rds, nPre + RefReadsOfSubs(subs, Len(subs))))

\* C2: for a profile with one AddProfileOR of N >= 1 sub-profiles without
\* AddProfileOR, a successful ComputePCRValues returns exactly N value sets,
\* equal ones included; the i-th is the profile's values before the
\* AddProfileOR with the instructions of the i-th sub-profile passed to
\* AddProfileOR applied on top, then the instructions after the AddProfileOR.
C2_OneBranch ==
    \A e \in Evals :
        (ReturnedOK(e) /\ OneSimpleBranch(recv[e])) =>
            LET instrs == profiles[recv[e]]
                subs   == instrs[BranchAt(instrs)].profiles
            IN  /\ Len(ret[e].values) = Len(subs)
                /\ \A i \in 1..Len(subs) :
                       Flat(ret[e].values[i]) = RefPathThrough(recv[e], i, ReadValues(e))

\* A profile with one AddProfileOR of two sub-profiles was evaluated, and the
\* two value sets returned differ.
C2_Witness ==
    \E e \in Evals :
        /\ ReturnedOK(e)
        /\ OneSimpleBranch(recv[e])
        /\ Len(ret[e].values) = 2
        /\ ret[e].values[1] # ret[e].values[2]

\* The meaning of any sequence of instructions on a list of value sets fs,
\* with the values rds still to be read: an instruction other than
\* AddProfileOR acts on every value set of the list; an AddProfileOR with
\* sub-profiles replaces the list by the lists its sub-profiles make of it,
\* one after the other; an AddProfileOR without sub-profiles does nothing.
\* RefEval gives the list and the values left to read.
RECURSIVE RefEval(_, _, _), RefBranch(_, _, _)
RefEval(instrs, fs, rds) ==
    IF instrs = <<>> THEN [vals |-> fs, rds |-> rds]
    ELSE LET i == Head(instrs)
         IN  IF IsBranch(i)
             THEN IF i.profiles = <<>>
                  THEN RefEval(Tail(instrs), fs, rds)
                  ELSE LET r == RefBranch(i.profiles, fs, rds)
                       IN  RefEval(Tail(instrs), r.vals, r.rds)
             ELSE LET isRead == i.op = "AddPCRValueFromTPM"
                      rd     == IF isRead THEN Head(rds) ELSE ZeroDigest(i.alg)
                  IN  RefEval(Tail(instrs),
                              [k \in 1..Len(fs) |-> RefInstr(i, fs[k], rd)],
                              IF isRead THEN Tail(rds) ELSE rds)
RefBranch(subs, fs, rds) ==
    IF subs = <<>> THEN [vals |-> <<>>, rds |-> rds]
    ELSE LET first == RefEval(profiles[Head(subs)], fs, rds)
             rest  == RefBranch(Tail(subs), fs, first.rds)
         IN  [vals |-> first.vals \o rest.vals, rds |-> rest.rds]

\* The number of paths of a profile: one, times the sum of the numbers of
\* paths of the sub-profiles for each AddProfileOR that has sub-profiles.
RECURSIVE RefPaths(_), RefPathsOfSubs(_)
RefPaths(instrs) ==
    IF instrs = <<>> THEN 1
    ELSE (IF IsBranch(Head(instrs)) /\ Head(instrs).profiles # <<>>
          THEN RefPathsOfSubs(Head(instrs).profiles)
          ELSE 1) * RefPaths(Tail(instrs))
RefPathsOfSubs(subs) ==
    IF subs = <<>> THEN 0
    ELSE RefPaths(profiles[Head(subs)]) + RefPathsOfSubs(Tail(subs))

\* A profile whose only AddProfileOR has at least one sub-profile.
OnlyBranch(p) ==
    LET instrs == profiles[p]
    IN  /\ Cardinality({k \in 1..Len(instrs) : IsBranch(instrs[k])}) = 1
        /\ instrs[BranchAt(instrs)].profiles # <<>>

\* The root's AddProfileOR has NestedMids sub-profiles, each of one
\* instruction and an AddProfileOR of NestedLeaves sub-profiles of one
\* instruction: the tree of SpecNested.
IsNested(p) ==
    /\ Len(profiles[p]) = 1 /\ IsBranch(profiles[p][1])
    /\ Len(profiles[p][1].profiles) = NestedMids
    /\ \A i \in 1..NestedMids :
           LET mid == profiles[profiles[p][1].profiles[i]]
           IN  /\ Len(mid) = 2 /\ ~IsBranch(mid[1]) /\ IsBranch(mid[2])
               /\ Len(mid[2].profiles) = NestedLeaves
               /\ \A j \in 1..NestedLeaves :
                      /\ Len(profiles[mid[2].profiles[j]]) = 1
                      /\ NoBranch(profiles[mid[2].profiles[j]])

\* In the tree of IsNested: the value read for the instruction of the i-th
\* sub-profile of the root, if it is an AddPCRValueFromTPM (the reads are
\* made in the order of the sub-profiles).
NestedReadsBefore(p, i) ==
    Cardinality({h \in 1..i :
        profiles[profiles[p][1].profiles[h]][1].op = "AddPCRValueFromTPM"})

\* In the tree of IsNested: the value set of the path through the i-th
\* sub-profile of the root and the j-th sub-profile of that.
NestedPath(p, i, j, rds) ==
    LET mid  == profiles[profiles[p][1].profiles[i]]
        leaf == profiles[mid[2].profiles[j]]
    IN  RefSeq(<<mid[1], leaf[1]>>, <<>>, Drop(rds, NestedReadsBefore(p, i - 1)))

\* C3: nested AddProfileOR add up path counts depth first, left to right.
\* When a profile's only AddProfileOR has the sub-profiles S1..Sn, the list a
\* successful ComputePCRValues returns is the concatenation, in the order
\* S1..Sn, of the paths of each Si (carried through the instructions that
\* follow the AddProfileOR), and its length is the sum of the path counts of
\* S1..Sn.  A root of 2 sub-profiles of 3 simple sub-profiles each yields 6
\* value sets in the order (1,1),(1,2),(1,3),(2,1),(2,2),(2,3).
C3_NestedBranches ==
    \A e \in Evals :
        (ReturnedOK(e) /\ OnlyBranch(recv[e])) =>
            LET instrs == profiles[recv[e]]
                b      == BranchAt(instrs)
                pre    == SubSeq(instrs, 1, b - 1)
                rds    == ReadValues(e)
                before == RefSeq(pre, <<>>, rds)
                inSubs == RefBranch(instrs[b].profiles, <<before>>,
                                    Drop(rds, RefReadsOfSeq(pre)))
                after  == [k \in 1..Len(inSubs.vals) |->
                              RefSeq(Drop(instrs, b), inSubs.vals[k], inSubs.rds)]
            IN  /\ FlatList(ret[e].values) = after
                /\ Len(ret[e].values) = RefPathsOfSubs(instrs[b].profiles)
                /\ IsNested(recv[e]) =>
                       /\ Len(ret[e].values) = NestedMids * NestedLeaves
                       /\ \A i \in 1..NestedMids, j \in 1..NestedLeaves :
                              Flat(ret[e].values[(i - 1) * NestedLeaves + j])
                                  = NestedPath(recv[e], i, j, rds)

\* The tree of 2 sub-profiles of 3 sub-profiles each was evaluated, and the 6
\* value sets returned are different from each other.
C3_Witness ==
    \E e \in Evals :
        /\ ReturnedOK(e)
        /\ IsNested(recv[e])
        /\ Len(ret[e].values) = 6
        /\ \A k, l \in 1..6 : k # l => ret[e].values[k] # ret[e].values[l]

\* Evaluation e takes a step of the loop of ComputePCRValues on an
\* instruction of one of the kinds ops.
LoopStep(e, ops) ==
    /\ InLoop(e)
    /\ Fetched(e).instr.op \in ops
    /\ iter'[e] = Fetched(e).iter
    /\ iter'[e] # iter[e]

\* The value sets a context of evaluation e holds, before and after a step.
HeldBy(e, c) == Deref(pcrValues[e], ctxs[e][c].values)
HeldByAfter(e, c) == Deref(pcrValues'[e], ctxs'[e][c].values)

\* The contexts on the stack of evaluation e.
OnStack(e) == {contexts[e][k] : k \in 1..Len(contexts[e])}

\* The contexts on the stack hold different maps: no map is in two lists, or
\* twice in one.
NoSharedMaps(e) ==
    \A a, b \in 1..Len(contexts[e]) :
        LET la == ctxs[e][contexts[e][a]].values
            lb == ctxs[e][contexts[e][b]].values
        IN  \A x \in 1..Len(la), y \in 1..Len(lb) :
                (la[x] = lb[y]) => (a = b /\ x = y)

\* C4: branches are isolated.  An AddPCRValue, AddPCRValueFromTPM or
\* ExtendPCR step changes no value set other than those of the context at the
\* top of the stack: the value sets of every other context (a sibling not
\* started yet, a parent holding what completed siblings merged into it) stay
\* as they were.  The contexts an AddProfileOR step makes each hold the value
\* sets the top context held when the AddProfileOR was reached, and the end
\* of a sub-profile changes only the parent's list, which grows by the value
\* sets of the sub-profile ended: so every sub-profile starts from the
\* parent's list as it was at the AddProfileOR.
C4_BranchIsolation ==
    /\ [](\A e \in Evals : InLoop(e) => NoSharedMaps(e))
    /\ [][\A e \in Evals :
            LET t == top(contexts[e])
            IN  /\ LoopStep(e, {"AddPCRValue", "AddPCRValueFromTPM", "ExtendPCR"}) =>
                       /\ ctxs'[e] = ctxs[e]
                       /\ contexts'[e] = contexts[e]
                       /\ \A a \in DOMAIN pcrValues[e] :
                              (\A x \in 1..Len(ctxs[e][t].values) :
                                   ctxs[e][t].values[x] # a)
                                  => pcrValues'[e][a] = pcrValues[e][a]
                       /\ \A c \in OnStack(e) :
                              c # t => HeldByAfter(e, c) = HeldBy(e, c)
                /\ LoopStep(e, {"AddProfileOR"}) =>
                       /\ Len(contexts'[e]) =
                              Len(contexts[e]) + Len(Fetched(e).instr.profiles)
                       /\ \A k \in 1..Len(contexts'[e]) :
                              LET c == contexts'[e][k]
                              IN  IF c \in OnStack(e)
                                  THEN c # t => HeldByAfter(e, c) = HeldBy(e, c)
                                  ELSE HeldByAfter(e, c) = HeldBy(e, t)
                /\ (LoopStep(e, {"EndProfile"}) /\ pc'[e] = "loop") =>
                       /\ contexts'[e] = Tail(contexts[e])
                       /\ \A c \in OnStack(e) :
                              c # t =>
                                  HeldByAfter(e, c) =
                                      IF c = ctxs[e][t].parent
                                      THEN HeldBy(e, c) \o HeldBy(e, t)
                                      ELSE HeldBy(e, c)
       ]_vars

\* The second of three sub-profiles is active and has changed its value set:
\* the parent holds what the first one merged into it, and the third, not
\* started, holds a value set that is not the active one's.
C4_Witness ==
    \E e \in Evals :
        /\ InLoop(e)
        /\ Len(contexts[e]) >= 3
        /\ LET t == contexts[e][1]
               s == contexts[e][2]
           IN  /\ ctxs[e][s].parent = ctxs[e][t].parent
               /\ Len(ctxs[e][ctxs[e][t].parent].values) = 1
               /\ Len(HeldBy(e, t)) = 1 /\ Len(HeldBy(e, s)) = 1
               /\ HeldBy(e, s)[1] # EmptyPCRValues
               /\ HeldBy(e, t) # HeldBy(e, s)
               /\ HeldBy(e, ctxs[e][t].parent) # HeldBy(e, t)
               /\ HeldBy(e, ctxs[e][t].parent) # HeldBy(e, s)

\* Evaluation e's ComputePCRDigests call has returned; with success.
DigestsReturned(e) == pc[e] = "finished"
DigestsReturnedOK(e) == DigestsReturned(e) /\ dret[e].err = "nil"

\* Some value set returned has other keys than the first one.
KeysDiffer(values) == \E i \in 1..Len(values) : Keys(values[i]) # Keys(values[1])

MismatchError == "not all branches contain values for the same sets of PCRs"

\* C5: when some value set ComputePCRValues returned has a set of
\* (algorithm, PCR) keys that is not the first value set's, ComputePCRDigests
\* returns the error "not all branches contain values for the same sets of
\* PCRs", with no selection and no digests.
C5_MismatchFails ==
    \A e \in Evals :
        (DigestsReturned(e) /\ ret[e].err = "nil" /\ KeysDiffer(ret[e].values)) =>
            /\ dret[e].err = MismatchError
            /\ dret[e].pcrs = <<>>
            /\ dret[e].digests = <<>>

\* ComputePCRDigests has returned for a first and a second value set that
\* have a key in common but not the same keys.
C5_Witness ==
    \E e \in Evals :
        /\ DigestsReturned(e) /\ ret[e].err = "nil"
        /\ dret[e].err = MismatchError
        /\ Len(ret[e].values) >= 2
        /\ LET a == Keys(ret[e].values[1])
               b == Keys(ret[e].values[2])
           IN  /\ a # {} /\ b # {} /\ a # b
               /\ a \cap b # {}

\* The keys a selection selects.
SelectionKeys(sel) == {<<alg, pcr>> \in (DOMAIN sel) \X PCRs : pcr \in sel[alg]}

\* C6: when ComputePCRDigests succeeds, the selection it returns is the set
\* of (algorithm, PCR) keys of the first value set ComputePCRValues returned,
\* and every other value set returned has the same keys.
C6_SelectionOfFirst ==
    \A e \in Evals :
        DigestsReturnedOK(e) =>
            /\ ret[e].err = "nil"
            /\ DOMAIN dret[e].pcrs \subseteq {"SHA1", "SHA256"}
            /\ SelectionKeys(dret[e].pcrs) = Keys(ret[e].values[1])
            /\ \A i \in 1..Len(ret[e].values) :
                   Keys(ret[e].values[i]) = Keys(ret[e].values[1])

\* ComputePCRDigests succeeded for two value sets of the same two keys that
\* are not the same value set.
C6_Witness ==
    \E e \in Evals :
        /\ DigestsReturnedOK(e)
        /\ Len(ret[e].values) >= 2
        /\ Cardinality(SelectionKeys(dret[e].pcrs)) = 2
        /\ ret[e].values[1] # ret[e].values[2]

\* The composite digests of the value sets returned, path by path, when they
\* are computed with the algorithm alg.
PathDigests(e, alg) ==
    [i \in 1..Len(ret[e].values) |-> ComputePCRDigestSimple(alg, ret[e].values[i]).digest]

\* The first path whose digest is d.
FirstPath(pd, d) == CHOOSE i \in 1..Len(pd) : pd[i] = d /\ \A j \in 1..(i - 1) : pd[j] # d

\* C7: the digests a successful ComputePCRDigests returns are the per-path
\* composite digests without the duplicates: no digest is in the list twice,
\* the digest of every path is in it, nothing else is, and the digests are in
\* the order of their first paths.
C7_Deduplicated ==
    \A e \in Evals :
        DigestsReturnedOK(e) =>
            \E alg \in {"SHA1", "SHA256"} :
                LET pd == PathDigests(e, alg)
                    ds == dret[e].digests
                IN  /\ \A a, b \in 1..Len(ds) : a # b => ds[a] # ds[b]
                    /\ \A i \in 1..Len(pd) : \E a \in 1..Len(ds) : ds[a] = pd[i]
                    /\ \A a \in 1..Len(ds) : \E i \in 1..Len(pd) : pd[i] = ds[a]
                    /\ \A a, b \in 1..Len(ds) :
                           a < b => FirstPath(pd, ds[a]) < FirstPath(pd, ds[b])

\* ComputePCRDigests succeeded for six paths of which the first and the
\* third, of different sub-profiles, have the same values and the second has
\* not: fewer digests than paths are returned, and more than one.
C7_Witness ==
    \E e \in Evals :
        /\ DigestsReturnedOK(e)
        /\ Len(ret[e].values) = 6
        /\ ret[e].values[1] = ret[e].values[3]
        /\ ret[e].values[1] # ret[e].values[2]
        /\ Len(dret[e].digests) > 1
        /\ Len(dret[e].digests) < 6

\* hash(Z || v), Z the digest of Size(alg) zero bytes.
ExtendOfZeroes(alg, value) == HashSum(alg, Bytes(ZeroDigest(alg)) \o Bytes(value))

\* C8: an ExtendPCR(alg, pcr, v) step makes of every value set of the top
\* context that has no entry for (alg, pcr) the value set that
\* AddPCRValue(alg, pcr, hash(Z || v)) makes of it, Z being the all-zero
\* digest of the size of alg: for each value set by itself, whatever the other
\* value sets of the list hold, and also when the value set has no bank alg.
C8_ExtendAbsent ==
    [][\A e \in Evals :
           LoopStep(e, {"ExtendPCR"}) =>
               LET i == Fetched(e).instr
                   l == ctxs[e][top(contexts[e])].values
                   asAdd == setValue(pcrValues[e], l, i.alg, i.pcr,
                                     ExtendOfZeroes(i.alg, i.value))
               IN  \A x \in 1..Len(l) :
                       ~HasPCR(pcrValues[e][l[x]], i.alg, i.pcr) =>
                           /\ pcrValues'[e][l[x]] = asAdd[l[x]]
                           /\ Flat(pcrValues'[e][l[x]]) =
                                  RefPut(Flat(pcrValues[e][l[x]]), <<i.alg, i.pcr>>,
                                         ExtendOfZeroes(i.alg, i.value))
      ]_vars

\* A profile ending in an ExtendPCR that acted on two paths was evaluated:
\* one path had no bank at all and holds nothing but hash(Z || v), the other
\* had a value for the PCR and holds something else.
C8_Witness ==
    \E e \in Evals :
        /\ ReturnedOK(e)
        /\ Len(profiles[recv[e]]) >= 2
        /\ LET i == profiles[recv[e]][Len(profiles[recv[e]])]
           IN  /\ i.op = "ExtendPCR"
               /\ Len(ret[e].values) = 2
               /\ \E a, b \in 1..2 :
                      /\ Flat(ret[e].values[a]) =
                             RefPut(<<>>, <<i.alg, i.pcr>>, ExtendOfZeroes(i.alg, i.value))
                      /\ Keys(ret[e].values[b]) = {<<i.alg, i.pcr>>}
                      /\ ret[e].values[b][i.alg][i.pcr] # ExtendOfZeroes(i.alg, i.value)

\* The AddPCRValueFromTPM instructions of the profiles of the tree of p: one
\* per profile and position, however often the profile is referenced.
FromTPMInstrs(p) ==
    {<<q, k>> \in TreeOf(p) \X (1..MaxInstrs) :
         k <= Len(profiles[q]) /\ profiles[q][k].op = "AddPCRValueFromTPM"}

\* The number of times the traversal of a sequence of instructions reaches an
\* AddPCRValueFromTPM: the instructions of a sub-profile count once for every
\* reference to the sub-profile.
RECURSIVE RefReaches(_), RefReachesOfSubs(_)
RefReaches(instrs) ==
    IF instrs = <<>> THEN 0
    ELSE (CASE Head(instrs).op = "AddPCRValueFromTPM" -> 1
            [] Head(instrs).op = "AddProfileOR" -> RefReachesOfSubs(Head(instrs).profiles)
            [] OTHER -> 0)
         + RefReaches(Tail(instrs))
RefReachesOfSubs(subs) ==
    IF subs = <<>> THEN 0
    ELSE RefReaches(profiles[Head(subs)]) + RefReachesOfSubs(Tail(subs))

\* C9 as claimed: every AddPCRValueFromTPM instruction of the profile tree,
\* also one of a sub-profile referenced more than once, causes exactly one
\* read of the TPM per evaluation: an evaluation that succeeds has made as
\* many reads as the tree has AddPCRValueFromTPM instructions.
C9_OneReadPerInstruction ==
    \A e \in Evals :
        ReturnedOK(e) => Len(reads[e]) = Cardinality(FromTPMInstrs(recv[e]))

\* C9, amended: every time the traversal reaches an AddPCRValueFromTPM
\* instruction exactly one read of the TPM is made, at that step, however many
\* value sets the top context holds, and the value read is the one set in
\* all of them; no other step reads.  An evaluation that succeeds has made
\* one read for every time an AddPCRValueFromTPM was reached: an instruction
\* of a sub-profile referenced k times is read k times.  The reads of an
\* evaluation are its own: a later evaluation starts without any and reads
\* again.
C9_OneReadPerReach ==
    /\ [](\A e \in Evals :
              /\ ReturnedOK(e) => Len(reads[e]) = RefReaches(profiles[recv[e]])
              /\ InLoop(e) => Len(reads[e]) <= RefReaches(profiles[recv[e]]))
    /\ [][\A e \in Evals :
            /\ (LoopStep(e, {"AddPCRValueFromTPM"}) /\ tpm[e] # "nil") =>
                   /\ Len(reads'[e]) = Len(reads[e]) + 1
                   /\ SubSeq(reads'[e], 1, Len(reads[e])) = reads[e]
                   /\ pc'[e] = "loop" =>
                          LET i == Fetched(e).instr
                              l == ctxs[e][top(contexts[e])].values
                              r == reads'[e][Len(reads'[e])]
                          IN  /\ r.ok
                              /\ \A x \in 1..Len(l) :
                                     pcrValues'[e][l[x]] =
                                         PCRValuesSetValue(pcrValues[e][l[x]],
                                                           i.alg, i.pcr, r.value)
            /\ LoopStep(e, {"AddPCRValue", "ExtendPCR", "AddProfileOR", "EndProfile"}) =>
                   reads'[e] = reads[e]
            /\ (pc[e] = "idle" /\ pc'[e] = "loop") => reads'[e] = <<>>
       ]_vars

\* A second evaluation succeeded for a root that ends in an
\* AddPCRValueFromTPM after an AddProfileOR that references twice a
\* sub-profile with an AddPCRValueFromTPM: two such instructions, three reads
\* (the first two of different values), the last one with two value sets in
\* the top context.
C9_Witness ==
    \E e \in Evals :
        /\ ReturnedOK(e)
        /\ ncalls = 2
        /\ Cardinality(FromTPMInstrs(recv[e])) = 2
        /\ Len(reads[e]) = 3
        /\ reads[e][1].value # reads[e][2].value
        /\ Len(ret[e].values) = 2
        /\ profiles[recv[e]][Len(profiles[recv[e]])].op = "AddPCRValueFromTPM"

\* A read of the TPM has failed during evaluation e.
ReadFailed(e) == \E k \in 1..Len(reads[e]) : ~reads[e][k].ok

\* C10: when a read of the TPM fails during ComputePCRValues, the call
\* returns at that instruction with the error and no value list: the failed
\* read is the last one made, no value set is changed by the failing step,
\* and from then on nothing of the evaluation moves (no instruction is
\* fetched, no read made, no value set changed) until the caller lets go of
\* it; ComputePCRDigests returns that error, with no selection and no digests.
C10_ReadFailureStops ==
    /\ [](\A e \in Evals :
              ReadFailed(e) =>
                  /\ Returned(e)
                  /\ ret[e] = [values |-> <<>>, err |-> "PCRRead"]
                  /\ \A k \in 1..Len(reads[e]) : ~reads[e][k].ok <=> k = Len(reads[e])
                  /\ DigestsReturned(e) =>
                         dret[e] = [pcrs |-> <<>>, digests |-> <<>>, err |-> "PCRRead"])
    /\ [][\A e \in Evals :
            /\ (~ReadFailed(e) /\ ReadFailed(e)') =>
                   /\ LoopStep(e, {"AddPCRValueFromTPM"})
                   /\ pcrValues'[e] = pcrValues[e]
                   /\ ctxs'[e] = ctxs[e]
                   /\ contexts'[e] = contexts[e]
            /\ (ReadFailed(e) /\ pc'[e] # "idle") =>
                   /\ iter'[e] = iter[e]
                   /\ reads'[e] = reads[e]
                   /\ pcrValues'[e] = pcrValues[e]
                   /\ ctxs'[e] = ctxs[e]
                   /\ contexts'[e] = contexts[e]
                   /\ ret'[e] = ret[e]
       ]_vars

\* ComputePCRDigests has returned the error of a read that failed after an
\* earlier read had succeeded and set a value, with an instruction of the
\* profile still to come.
C10_Witness ==
    \E e \in Evals :
        /\ DigestsReturned(e)
        /\ dret[e].err = "PCRRead"
        /\ Len(reads[e]) = 2
        /\ reads[e][1].ok /\ ~reads[e][2].ok
        /\ \E a \in DOMAIN pcrValues[e] : pcrValues[e][a] # EmptyPCRValues
        /\ \E k \in 1..Len(iter[e]) : iter[e][k] # <<>>

\* C11: a ComputePCRValues call without a TPM context returns the error "no
\* TPM context", and no values, exactly when the tree of the profile has an
\* AddPCRValueFromTPM instruction, in the root or in a sub-profile; with no
\* such instruction it returns values and no error.  It never reads.
C11_NoTPMContext ==
    \A e \in Evals :
        (Returned(e) /\ tpm[e] = "nil") =>
            /\ reads[e] = <<>>
            /\ (ret[e].err = "no TPM context") <=> (FromTPMInstrs(recv[e]) # {})
            /\ ret[e].err = "no TPM context" => ret[e].values = <<>>
            /\ FromTPMInstrs(recv[e]) = {} =>
                   /\ ret[e].err = "nil"
                   /\ FlatList(ret[e].values) =
                          RefEval(profiles[recv[e]], <<<<>>>>, <<>>).vals

\* A call without a TPM context has returned the error for a tree whose root
\* has no AddPCRValueFromTPM: the instruction is in a sub-profile, and value
\* sets had been computed when it was reached.
C11_Witness ==
    \E e \in Evals :
        /\ Returned(e) /\ tpm[e] = "nil"
        /\ ret[e] = [values |-> <<>>, err |-> "no TPM context"]
        /\ \A k \in 1..Len(profiles[recv[e]]) :
               profiles[recv[e]][k].op # "AddPCRValueFromTPM"
        /\ \E a \in DOMAIN pcrValues[e] : pcrValues[e][a] # EmptyPCRValues

\* The step appends the instruction i, and nothing else, to profile p: the
\* instructions p had are where they were, no other profile changes, and
\* there is no panic.
Appended(p, i) ==
    /\ Len(profiles'[p]) = Len(profiles[p]) + 1
    /\ profiles'[p][Len(profiles'[p])] = i
    /\ \A k \in 1..Len(profiles[p]) : profiles'[p][k] = profiles[p][k]
    /\ \A q \in DOMAIN profiles : q # p => profiles'[q] = profiles[q]
    /\ panicked' = ""

\* The step is a panic that leaves every profile as it was.
Aborted == profiles' = profiles /\ panicked' = "invalid digest length"

\* C12: AddPCRValue and ExtendPCR with a value whose length is not the size
\* of the algorithm panic and leave the instructions of the profile as they
\* were; every other builder call appends one instruction, the one of the
\* call, at the end of the profile it is made on and changes nothing before
\* it (the profile the call returns is the one it was made on, p).  Nothing
\* but one such append ever changes a profile.
C12_BuilderCalls ==
    [][/\ \A p \in ProfileIds, alg \in Algs, pcr \in PCRs :
              /\ \A value \in InputDigests :
                     /\ AddPCRValue(p, alg, pcr, value) =>
                            IF value.len # Size(alg) THEN Aborted
                            ELSE Appended(p, AddPCRValueInstr(alg, pcr, value))
                     /\ ExtendPCR(p, alg, pcr, value) =>
                            IF value.len # Size(alg) THEN Aborted
                            ELSE Appended(p, ExtendPCRInstr(alg, pcr, value))
              /\ AddPCRValueFromTPM(p, alg, pcr) =>
                     Appended(p, AddPCRValueFromTPMInstr(alg, pcr))
       /\ \A p \in ProfileIds :
              \A profs \in SubProfileLists(p) :
                  AddProfileOR(p, profs) => Appended(p, AddProfileORInstr(profs))
       /\ profiles' # profiles =>
              \E p \in ProfileIds : Appended(p, profiles'[p][Len(profiles'[p])])
       /\ (panicked = "" /\ panicked' = "invalid digest length") => Aborted
      ]_vars

\* A builder call panicked on a profile that holds the two instructions of
\* earlier calls.
C12_Witness ==
    /\ panicked = "invalid digest length"
    /\ \E p \in ProfileIds :
           /\ Len(profiles[p]) = 2
           /\ profiles[p][2].op \in {"ExtendPCR", "AddProfileOR"}

\* Call e has returned from String.
Printed(e) == pc[e] = "printed"

\* C13: evaluation and printing leave the profiles as they are.  No step in
\* which an iterator moves, or in which a call of ComputePCRValues,
\* ComputePCRDigests or String starts, goes on or returns, changes the
\* instructions of any profile, also when the call ends in an error; so two
\* calls on the same profile agree: ComputePCRValues calls that read the same
\* values (or both have no TPM context) return the same values and error,
\* ComputePCRDigests after them the same selection and error, and String
\* calls the same text.
C13_ReadOnly ==
    /\ [][(\E e \in Evals : iter'[e] # iter[e] \/ pc'[e] # pc[e] \/ pc[e] # "idle")
              => profiles' = profiles]_vars
    /\ [](\A e1, e2 \in Evals :
              recv[e1] = recv[e2] =>
                  /\ (Returned(e1) /\ Returned(e2)
                         /\ tpm[e1] = tpm[e2] /\ reads[e1] = reads[e2]) =>
                         /\ ret[e1] = ret[e2]
                         /\ (DigestsReturned(e1) /\ DigestsReturned(e2)) =>
                                /\ dret[e1].err = dret[e2].err
                                /\ dret[e1].pcrs = dret[e2].pcrs
                                /\ Len(dret[e1].digests) = Len(dret[e2].digests)
                  /\ (Printed(e1) /\ Printed(e2)) => buf[e1] = buf[e2])

\* Two ComputePCRValues calls on the same profile, which starts with an
\* AddPCRValue, have read the same value and returned two value sets.
C13_Witness ==
    /\ recv[1] = recv[2]
    /\ ReturnedOK(1) /\ ReturnedOK(2)
    /\ reads[1] # <<>> /\ reads[1] = reads[2]
    /\ Len(ret[1].values) = 2
    /\ ret[1].values[1] # ret[1].values[2]
    /\ profiles[recv[1]][1].op = "AddPCRValue"

\* What a ComputePCRValues call on profile p returns when nothing else runs,
\* as a function of its TPM argument t and of the results rds of the reads it
\* makes: the error for the missing TPM context if the tree has an
\* AddPCRValueFromTPM, the error of the read that failed, or the value sets
\* of the tree.
RefReturn(p, t, rds) ==
    IF t = "nil"
    THEN IF FromTPMInstrs(p) # {}
         THEN [values |-> <<>>, err |-> "no TPM context"]
         ELSE [values |-> RefEval(profiles[p], <<<<>>>>, <<>>).vals, err |-> "nil"]
    ELSE IF \E k \in 1..Len(rds) : ~rds[k].ok
         THEN [values |-> <<>>, err |-> "PCRRead"]
         ELSE [values |-> RefEval(profiles[p], <<<<>>>>,
                                  [k \in 1..Len(rds) |-> rds[k].value]).vals,
               err |-> "nil"]

\* C14: two evaluations of the same profiles, each with its own iterator,
\* contexts and values, have their steps interleaved in any order; each
\* returns what it returns when it runs alone, which the values it read
\* determine: the other evaluation has no part in it.
C14_Interleaved ==
    \A e \in Evals :
        Returned(e) =>
            /\ (ret[e].err = "nil" /\ tpm[e] # "nil") =>
                   Len(reads[e]) = RefReaches(profiles[recv[e]])
            /\ ret[e].err = RefReturn(recv[e], tpm[e], reads[e]).err
            /\ FlatList(ret[e].values) = RefReturn(recv[e], tpm[e], reads[e]).values

\* One evaluation has returned two value sets while the other, which read
\* another value first, is in the second sub-profile of the AddProfileOR.
C14_Witness ==
    /\ ReturnedOK(1)
    /\ Len(ret[1].values) = 2
    /\ InLoop(2)
    /\ Len(contexts[2]) = 2
    /\ Len(ctxs[2][1].values) = 1
    /\ reads[1] # <<>> /\ reads[2] # <<>>
    /\ reads[1][1] # reads[2][1]

\* The instructions that successive next() calls return from an iterator,
\* until it holds no level.
RECURSIVE StreamOf(_)
StreamOf(it) ==
    IF Len(it) = 0 THEN <<>>
    ELSE LET n == next(it) IN <<n.instr>> \o StreamOf(n.iter)

\* The linearization L of a sequence of instructions: an instruction other
\* than AddProfileOR is itself; an AddProfileOR with sub-profiles is itself,
\* then for each sub-profile in order its linearization and an end marker.
\* (An AddProfileOR without sub-profiles is the matter of C17: nothing.)
RECURSIVE RefLin(_), RefLinOfSubs(_)
RefLin(instrs) ==
    IF instrs = <<>> THEN <<>>
    ELSE LET i == Head(instrs)
         IN  (IF ~IsBranch(i) THEN <<i>>
              ELSE IF i.profiles = <<>> THEN <<>>
              ELSE <<i>> \o RefLinOfSubs(i.profiles))
             \o RefLin(Tail(instrs))
RefLinOfSubs(subs) ==
    IF subs = <<>> THEN <<>>
    ELSE RefLin(profiles[Head(subs)]) \o <<EndProfileInstr>> \o RefLinOfSubs(Tail(subs))

IsPrefix(s, t) == Len(s) <= Len(t) /\ SubSeq(t, 1, Len(s)) = s
IsSuffix(s, t) == Len(s) <= Len(t) /\ SubSeq(t, Len(t) - Len(s) + 1, Len(t)) = s

\* Call e is in the loop of ComputePCRValues or of String.
Traversing(e) == InLoop(e) \/ InStringLoop(e)

Exhausted(level) ==
    \A k \in 1..Len(level) : IsBranch(level[k]) /\ level[k].profiles = <<>>

\* C16 as claimed: when the outermost level of the iterator has no
\* instructions left, next() returns no end marker; end markers are returned
\* for the other levels only.
C16_NoRootMarker ==
    \A e \in Evals :
        Traversing(e) =>
            /\ (Len(iter[e]) = 1 /\ Exhausted(iter[e][1])) =>
                   Fetched(e).instr.op # "EndProfile"
            /\ Fetched(e).instr.op = "EndProfile" => Len(iter[e]) > 1

\* C16, amended: next() returns an end marker whenever the first level of
\* the iterator has nothing left, the outermost level included, and takes
\* the level off: the stream of a profile is its linearization and then one
\* end marker, that of the root, after which the iterator holds no level.
\* ComputePCRValues takes that marker like the others and knows the end of
\* the root by the context on top of the stack, which has no parent exactly
\* when the marker is that of the outermost level; it returns at that step.
C16_RootMarker ==
    /\ [](/\ \A p \in DOMAIN profiles :
                StreamOf(traverseInstructions(p)) =
                    RefLin(profiles[p]) \o <<EndProfileInstr>>
          /\ \A e \in Evals :
                Traversing(e) =>
                    /\ Len(iter[e]) >= 1
                    /\ (Fetched(e).instr.op = "EndProfile") <=> Exhausted(iter[e][1])
                    /\ (Len(iter[e]) = 1 /\ Exhausted(iter[e][1])) =>
                           /\ Fetched(e).instr = EndProfileInstr
                           /\ Fetched(e).iter = <<>>
                    /\ (InLoop(e) /\ Fetched(e).instr.op = "EndProfile") =>
                           (isRoot(ctxs[e], top(contexts[e])) <=> Len(iter[e]) = 1))
    /\ [][\A e \in Evals :
              (InLoop(e) /\ pc'[e] = "done" /\ ret'[e].err = "nil") =>
                  /\ Fetched(e).instr = EndProfileInstr
                  /\ Len(iter[e]) = 1
                  /\ iter'[e] = <<>>
                  /\ isRoot(ctxs[e], top(contexts[e]))]_vars

\* The iterator of a ComputePCRValues call holds the outermost level only,
\* with nothing left in it, after the sub-profiles of an AddProfileOR: next()
\* is about to return the end marker of the root, and the root context is on
\* top.
C16_Witness ==
    \E e \in Evals :
        /\ InLoop(e)
        /\ Len(iter[e]) = 1 /\ Exhausted(iter[e][1])
        /\ Fetched(e).instr = EndProfileInstr
        /\ Len(ctxs[e]) >= 3
        /\ isRoot(ctxs[e], top(contexts[e]))
        /\ Len(ctxs[e][top(contexts[e])].values) >= 2

\* An AddProfileOR without sub-profiles, and a sequence of instructions
\* without those it has.
EmptyOR(i) == IsBranch(i) /\ i.profiles = <<>>
RECURSIVE WithoutEmptyOR(_)
WithoutEmptyOR(instrs) ==
    IF instrs = <<>> THEN <<>>
    ELSE (IF EmptyOR(Head(instrs)) THEN <<>> ELSE <<Head(instrs)>>)
         \o WithoutEmptyOR(Tail(instrs))

\* C17: next() never returns an AddProfileOR without sub-profiles, and no
\* end marker for it: what an iterator returns is what it returns with these
\* instructions taken out of its first level, the instruction that follows
\* or the end marker of the level.  A step that goes past such an
\* instruction pushes no context and leaves every list of values with the
\* value sets it has, and a ComputePCRValues call that succeeds returns the
\* values of the profile without these instructions.
C17_EmptyBranchSkipped ==
    /\ [](/\ \A p \in DOMAIN profiles :
                \A k \in 1..Len(StreamOf(traverseInstructions(p))) :
                    ~EmptyOR(StreamOf(traverseInstructions(p))[k])
          /\ \A e \in Evals :
                /\ Traversing(e) =>
                       LET without == [iter[e] EXCEPT ![1] = WithoutEmptyOR(@)]
                       IN  /\ ~EmptyOR(Fetched(e).instr)
                           /\ Fetched(e).instr = next(without).instr
                           /\ StreamOf(iter[e]) = StreamOf(without)
                /\ ReturnedOK(e) =>
                       FlatList(ret[e].values) =
                           RefEval(WithoutEmptyOR(profiles[recv[e]]), <<<<>>>>,
                                   ReadValues(e)).vals)
    /\ [][\A e \in Evals :
              (InLoop(e) /\ iter'[e] # iter[e] /\ Len(iter[e][1]) > 0
                  /\ EmptyOR(iter[e][1][1])) =>
                  /\ Len(contexts'[e]) =
                         Len(contexts[e])
                         + (CASE Fetched(e).instr.op = "AddProfileOR" ->
                                     Len(Fetched(e).instr.profiles)
                              [] Fetched(e).instr.op = "EndProfile" /\ pc'[e] = "loop" -> -1
                              [] OTHER -> 0)
                  /\ Fetched(e).instr.op \notin {"AddProfileOR", "EndProfile"} =>
                         /\ ctxs'[e] = ctxs[e]
                         /\ Len(pcrValues'[e]) = Len(pcrValues[e])
                  /\ \A c \in OnStack(e) :
                         Len(ctxs[e][c].values) > 0 /\ c # top(contexts[e])
                             => Len(ctxs'[e][c].values) >= Len(ctxs[e][c].values)]_vars

\* A call has returned one value set for a profile with an AddProfileOR
\* without sub-profiles between two other instructions, the second of which
\* left its mark on the value set.
C17_Witness ==
    \E e \in Evals :
        /\ ReturnedOK(e)
        /\ Len(profiles[recv[e]]) = 3
        /\ EmptyOR(profiles[recv[e]][2])
        /\ profiles[recv[e]][1].op = "AddPCRValue"
        /\ profiles[recv[e]][3].op = "ExtendPCR"
        /\ Len(ret[e].values) = 1
        /\ Flat(ret[e].values[1]) # RefSeq(<<profiles[recv[e]][1]>>, <<>>, <<>>)

\* The lists of the n contexts of call e allocated last up to the context t,
\* t included, one after the other in the order of their allocation (the
\* contexts of the sub-profiles of an AddProfileOR are allocated together, in
\* the order of the sub-profiles).
RECURSIVE ListsOfLast(_, _, _)
ListsOfLast(e, t, n) ==
    IF n = 0 THEN <<>> ELSE ListsOfLast(e, t - 1, n - 1) \o ctxs[e][t].values

\* C18: on the end marker of a sub-profile the maps of the context popped
\* are appended, in their order, to the list of its parent, behind those of
\* the sub-profiles ended before.  So, when the last sub-profile has ended
\* and the parent is on top again, the parent's list is the lists of the
\* contexts of the sub-profiles of the AddProfileOR (the n allocated last for
\* this parent, for some n) one after the other, in the order of the
\* sub-profiles; and every AddPCRValue, AddPCRValueFromTPM and ExtendPCR that
\* follows acts on each of the value sets of that list.
C18_MergeInOrder ==
    [][\A e \in Evals :
           LET t == top(contexts[e])
               c == ctxs[e][t].parent
           IN  /\ (LoopStep(e, {"EndProfile"}) /\ pc'[e] = "loop") =>
                      /\ ctxs'[e][c].values = ctxs[e][c].values \o ctxs[e][t].values
                      /\ HeldByAfter(e, c) = HeldBy(e, c) \o HeldBy(e, t)
                      /\ contexts'[e] = Tail(contexts[e])
                      /\ top(contexts'[e]) = c =>
                             \E n \in 1..Len(ctxs[e]) :
                                 /\ \A k \in (t - n + 1)..t : ctxs[e][k].parent = c
                                 /\ ctxs'[e][c].values = ListsOfLast(e, t, n)
               /\ (LoopStep(e, {"AddPCRValue", "AddPCRValueFromTPM", "ExtendPCR"})
                      /\ pc'[e] = "loop") =>
                      LET i == Fetched(e).instr
                          l == ctxs[e][t].values
                      IN  \A x \in 1..Len(l) :
                              pcrValues'[e][l[x]] =
                                  CASE i.op = "AddPCRValue" ->
                                           PCRValuesSetValue(pcrValues[e][l[x]],
                                                             i.alg, i.pcr, i.value)
                                    [] i.op = "AddPCRValueFromTPM" ->
                                           PCRValuesSetValue(pcrValues[e][l[x]],
                                               i.alg, i.pcr,
                                               reads'[e][Len(reads'[e])].value)
                                    [] i.op = "ExtendPCR" ->
                                           ExtendOne(pcrValues[e][l[x]],
                                                     i.alg, i.pcr, i.value)
      ]_vars

\* The root is on top again with the value sets of its two sub-profiles, and
\* the ExtendPCR that follows the AddProfileOR has extended both.
C18_Witness ==
    \E e \in Evals :
        /\ InLoop(e)
        /\ contexts[e] = <<1>>
        /\ Len(ctxs[e]) = 3
        /\ ctxs[e][1].values = ctxs[e][2].values \o ctxs[e][3].values
        /\ Len(ctxs[e][1].values) = 2
        /\ Len(profiles[recv[e]]) = 2
        /\ profiles[recv[e]][2].op = "ExtendPCR"
        /\ iter[e] = <<<<>>>>
        /\ HeldBy(e, 1)[1] # HeldBy(e, 1)[2]
        /\ \A x \in 1..2 :
               HasPCR(HeldBy(e, 1)[x], profiles[recv[e]][2].alg, profiles[recv[e]][2].pcr)

\* C19: next() is never called on an iterator without levels: the iterator
\* of a call that is in the loop of ComputePCRValues or of String holds a
\* level, and what next() returns is an instruction or an end marker.  The
\* calls stop where the outermost level is found exhausted: String has a
\* context left exactly as long as its iterator has a level, ComputePCRValues
\* returns its values on the end marker that empties the iterator, and the
\* end markers it takes before have a context with a parent on top, so that
\* finishBranch is not called on the root context.
C19_NoMoreInstructionsUnreachable ==
    /\ [](\A e \in Evals :
              /\ Traversing(e) =>
                     /\ Len(iter[e]) > 0
                     /\ Fetched(e).instr.op \in {"AddPCRValue", "AddPCRValueFromTPM",
                                                 "ExtendPCR", "AddProfileOR",
                                                 "EndProfile"}
              /\ (panicked = "" /\ pc[e] = "string") =>
                     (Len(strContexts[e]) = 0 <=> Len(iter[e]) = 0)
              /\ Printed(e) => iter[e] = <<>> /\ strContexts[e] = <<>>
              /\ ReturnedOK(e) => iter[e] = <<>>
              /\ (InLoop(e) /\ Fetched(e).instr.op = "EndProfile"
                     /\ Len(iter[e]) > 1) =>
                     ctxs[e][top(contexts[e])].parent \in DOMAIN ctxs[e])
    /\ [][\A e \in Evals :
              /\ (LoopStep(e, {"EndProfile"}) /\ pc'[e] = "loop") =>
                     /\ ~isRoot(ctxs[e], top(contexts[e]))
                     /\ Len(iter'[e]) > 0
              /\ (Traversing(e) /\ iter'[e] = <<>> /\ iter[e] # <<>>) =>
                     /\ Fetched(e).instr = EndProfileInstr
                     /\ ~Traversing(e)']_vars

\* String has returned the text of a tree with an AddProfileOR in a
\* sub-profile of an AddProfileOR: its iterator holds no level.
C19_Witness ==
    \E e \in Evals :
        /\ Printed(e)
        /\ iter[e] = <<>>
        /\ \E k \in 1..Len(buf[e]) :
               buf[e][k].f = "%*s AddProfileOR(" /\ buf[e][k].width = 3

\* C20: the list a ComputePCRValues call returns with success has at least
\* one value set, whatever the tree (profiles without instructions,
\* AddProfileOR of such profiles or of none), so that values[0] in
\* ComputePCRDigests exists and the index is never out of range; and the
\* context on top of the stack holds at least one value set whenever an
\* AddPCRValue, AddPCRValueFromTPM or ExtendPCR is about to act on it.
C20_NeverEmpty ==
    /\ panicked # "index out of range"
    /\ \A e \in Evals :
           /\ ReturnedOK(e) => Len(ret[e].values) >= 1
           /\ DigestsReturnedOK(e) => Len(dret[e].digests) >= 1
           /\ (InLoop(e) /\ Fetched(e).instr.op \in
                   {"AddPCRValue", "AddPCRValueFromTPM", "ExtendPCR"}) =>
                  Len(ctxs[e][top(contexts[e])].values) >= 1

\* ComputePCRDigests succeeded on a tree with an AddProfileOR without
\* sub-profiles in the root and a sub-profile without instructions.
C20_Witness ==
    \E e \in Evals :
        /\ DigestsReturnedOK(e)
        /\ \E k \in 1..Len(profiles[recv[e]]) : EmptyOR(profiles[recv[e]][k])
        /\ \E q \in TreeOf(recv[e]) : q # recv[e] /\ profiles[q] = <<>>
        /\ Len(ret[e].values) >= 2


\* C21: while a ComputePCRValues call is in its loop, its iterator holds as
\* many levels as its stack holds contexts; the root context is the last of
\* the stack and the only one without a parent, so that it is on top exactly
\* when the iterator holds a single level.  A step on an AddProfileOR that
\* next() returns adds the number of its sub-profiles to both, a step on an
\* end marker that does not end the call takes one from both, and any other
\* step leaves both as they are.  The step that takes an end marker with the
\* root context on top finds the outermost level alone and exhausted, and
\* leaves the iterator without levels.
C21_Lockstep ==
    /\ [](\A e \in Evals :
              InLoop(e) =>
                  /\ Len(iter[e]) = Len(contexts[e])
                  /\ Len(contexts[e]) >= 1
                  /\ isRoot(ctxs[e], top(contexts[e])) <=> Len(iter[e]) = 1
                  /\ \A k \in 1..Len(contexts[e]) :
                         isRoot(ctxs[e], contexts[e][k]) <=> k = Len(contexts[e]))
    /\ [][\A e \in Evals :
              /\ LoopStep(e, {"AddProfileOR"}) =>
                     LET n == Len(Fetched(e).instr.profiles)
                     IN  /\ n >= 1
                         /\ Len(iter'[e]) = Len(iter[e]) + n
                         /\ Len(contexts'[e]) = Len(contexts[e]) + n
              /\ (LoopStep(e, {"EndProfile"}) /\ pc'[e] = "loop") =>
                     /\ Len(iter'[e]) = Len(iter[e]) - 1
                     /\ Len(contexts'[e]) = Len(contexts[e]) - 1
              /\ LoopStep(e, {"AddPCRValue", "AddPCRValueFromTPM", "ExtendPCR"}) =>
                     /\ Len(iter'[e]) = Len(iter[e])
                     /\ Len(contexts'[e]) = Len(contexts[e])
              /\ (LoopStep(e, {"EndProfile"}) /\ isRoot(ctxs[e], top(contexts[e]))) =>
                     /\ Len(iter[e]) = 1
                     /\ Exhausted(iter[e][1])
                     /\ iter'[e] = <<>>
                     /\ pc'[e] = "done"]_vars

\* A ComputePCRValues call is in a sub-profile of a sub-profile, after the end
\* of one sub-profile at that depth: five contexts were made, four are on the
\* stack, and the iterator holds four levels.
C21_Witness ==
    \E e \in Evals :
        /\ InLoop(e)
        /\ Len(ctxs[e]) = 5
        /\ Len(contexts[e]) = 4
        /\ Len(iter[e]) = 4
        /\ ~isRoot(ctxs[e], top(contexts[e]))

\* --------------------------------------- two AddProfileOR in the same profile
\* A fourth specification: the profiles are built already, as a root of two
\* AddProfileOR instructions, the first of two sub-profiles and the second of
\* three, each sub-profile of one instruction, and the tree is evaluated or
\* printed once.
TwoBranchProfiles(a1, a2, b1, b2, b3) ==
    <<<<AddProfileORInstr(<<2, 3>>), AddProfileORInstr(<<4, 5, 6>>)>>,
      <<a1>>, <<a2>>, <<b1>>, <<b2>>, <<b3>>>>

InitTwoBranches ==
    /\ profiles \in {TwoBranchProfiles(a1, a2, b1, b2, b3) :
                         a1 \in MidInstrs, a2 \in MidInstrs, b1 \in MidInstrs,
                         b2 \in LeafInstrs, b3 \in LeafInstrs}
    /\ panicked = ""
    /\ ncalls = MaxCalls - 1
    /\ evals = {1}
    /\ pc = [e \in Evals |-> "idle"]
    /\ recv = [e \in Evals |-> Nil]
    /\ tpm = [e \in Evals |-> "nil"]
    /\ iter = [e \in Evals |-> <<>>]
    /\ contexts = [e \in Evals |-> <<>>]
    /\ ctxs = [e \in Evals |-> <<>>]
    /\ pcrValues = [e \in Evals |-> <<>>]
    /\ reads = [e \in Evals |-> <<>>]
    /\ ret = [e \in Evals |-> NoRet]
    /\ dret = [e \in Evals |-> NoDRet]
    /\ strContexts = [e \in Evals |-> <<>>]
    /\ branchStart = [e \in Evals |-> FALSE]
    /\ buf = [e \in Evals |-> <<>>]

SpecTwoBranches == InitTwoBranches /\ [][Evaluate]_vars

\* The last two instructions of a profile are AddProfileOR instructions with
\* sub-profiles, and the sub-profiles of the second have no AddProfileOR.
EndsWithTwoBranches(p) ==
    LET instrs == profiles[p]
        n      == Len(instrs)
    IN  /\ n >= 2
        /\ IsBranch(instrs[n - 1]) /\ instrs[n - 1].profiles # <<>>
        /\ IsBranch(instrs[n]) /\ instrs[n].profiles # <<>>
        /\ \A j \in 1..Len(instrs[n].profiles) : NoBranch(profiles[instrs[n].profiles[j]])

\* C22: when the last two instructions of a profile are AddProfileOR
\* instructions with sub-profiles, the first leaving the paths a1..aN and the
\* second having the M sub-profiles b1..bM without AddProfileOR, a successful
\* ComputePCRValues returns N*M value sets, grouped by the sub-profiles of
\* the second: the value set at (j-1)*N + i is ai with the instructions of bj
\* applied, for i in 1..N and j in 1..M.  For every profile the number of
\* value sets returned is the product, over its AddProfileOR instructions
\* with sub-profiles, of the sum of the numbers of paths of the sub-profiles.
C22_BranchesMultiply ==
    \A e \in Evals :
        ReturnedOK(e) =>
            /\ Len(ret[e].values) = RefPaths(profiles[recv[e]])
            /\ EndsWithTwoBranches(recv[e]) =>
                   LET instrs == profiles[recv[e]]
                       first  == RefEval(SubSeq(instrs, 1, Len(instrs) - 1),
                                         <<<<>>>>, ReadValues(e))
                       a      == first.vals
                       N      == Len(a)
                       bs     == instrs[Len(instrs)].profiles
                       M      == Len(bs)
                   IN  /\ Len(ret[e].values) = N * M
                       /\ \A i \in 1..N, j \in 1..M :
                              Flat(ret[e].values[(j - 1) * N + i]) =
                                  RefSeq(profiles[bs[j]], a[i],
                                         Drop(first.rds, RefReadsOfSubs(bs, j - 1)))

\* A profile of two AddProfileOR instructions, of two and of three
\* sub-profiles, was evaluated: six value sets are returned, of which the
\* first four differ from one another (a1+b1, a2+b1, a1+b2, a2+b2).
C22_Witness ==
    \E e \in Evals :
        /\ ReturnedOK(e)
        /\ EndsWithTwoBranches(recv[e])
        /\ Len(profiles[recv[e]][1].profiles) = 2
        /\ Len(profiles[recv[e]][2].profiles) = 3
        /\ Len(ret[e].values) = 6
        /\ \A x, y \in 1..4 : x # y => ret[e].values[x] # ret[e].values[y]

\* ------------------------------------------------------- calls that go on
\* The calls of the program run to their end: a ComputePCRValues or String
\* call that is in its loop takes the next iteration, whatever the other
\* calls do (the loops wait for nothing but tpm.PCRRead, which answers with
\* a value or with an error).
LoopIteration(e) ==
    \/ StepAddPCRValue(e)
    \/ StepAddPCRValueFromTPMNoTPM(e)
    \/ StepAddPCRValueFromTPMError(e)
    \/ StepAddPCRValueFromTPM(e)
    \/ StepExtendPCR(e)
    \/ StepAddProfileOR(e)
    \/ StepEndProfileRoot(e)
    \/ StepEndProfile(e)
    \/ StringInstr(e)
    \/ StringAddProfileOR(e)
    \/ StringEndProfile(e)
    \/ StringReturn(e)

Fairness == \A e \in Evals : WF_vars(LoopIteration(e))

SpecLive == Init /\ [][Next]_vars /\ Fairness
SpecNestedLive == InitNested /\ [][Evaluate]_vars /\ Fairness
SpecSharedLive == InitShared /\ [][Evaluate]_vars /\ Fairness

\* The next() calls that call e has made on its iterator: what the iterator
\* had to return when the call got it, less what it has still to return.
NextCalls(e) ==
    Len(StreamOf(traverseInstructions(recv[e]))) - Len(StreamOf(iter[e]))

\* Call e has ended: ComputePCRValues has returned, or String has.
Ended(e) == Returned(e) \/ pc[e] = "printed"
InCall(e) == panicked = "" /\ pc[e] \in {"loop", "string"}

\* C23 as claimed: a call has ended after as many next() calls as the
\* linearization of the tree is long.
C23_CallsEqualLinearization ==
    \A e \in Evals : Ended(e) => NextCalls(e) = Len(RefLin(profiles[recv[e]]))

\* C23, amended: every ComputePCRValues and String call ends (no call stays
\* in its loop for ever, and a call leaves its loop by returning only).  Every
\* iteration of the loops makes one next() call and leaves the iterator as
\* that call left it, i.e. with one element less to return; what it has
\* still to return is never nothing while the call is in its loop, and its
\* last element is the end marker of the outermost level.  String, and
\* ComputePCRValues when it returns a value list, end after one next() call
\* more than the linearization is long, the last for the end marker of the
\* outermost level; ComputePCRValues that returns an error ends earlier, on
\* the AddPCRValueFromTPM that the last of its next() calls returned.
C23_Terminates ==
    /\ [](\A e \in Evals :
              /\ (InLoop(e) \/ InStringLoop(e)) =>
                     LET rest == StreamOf(iter[e])
                     IN  /\ Len(rest) >= 1
                         /\ rest[Len(rest)] = EndProfileInstr
                         /\ NextCalls(e) + Len(rest) =
                                Len(RefLin(profiles[recv[e]])) + 1
              /\ (ReturnedOK(e) \/ pc[e] = "printed") =>
                     NextCalls(e) = Len(RefLin(profiles[recv[e]])) + 1
              /\ (Returned(e) /\ ret[e].err # "nil") =>
                     /\ NextCalls(e) \in 1..Len(RefLin(profiles[recv[e]]))
                     /\ RefLin(profiles[recv[e]])[NextCalls(e)].op = "AddPCRValueFromTPM")
    /\ [][\A e \in Evals :
              (InCall(e) /\ iter'[e] # iter[e]) =>
                  /\ Fetched(e).instr.op # "panic"
                  /\ iter'[e] = Fetched(e).iter]_vars
    /\ \A e \in Evals : []<>(~InCall(e))

\* A ComputePCRValues call has returned a value list for a tree with an
\* AddProfileOR in a sub-profile of an AddProfileOR, six next() calls after
\* it began.
C23_Witness ==
    \E e \in Evals :
        /\ ReturnedOK(e)
        /\ NextCalls(e) = 6
        /\ Len(RefLin(profiles[recv[e]])) = 5
        /\ Len(ctxs[e]) = 3
=============================================================================
